---- MODULE Spec2Model ----
(***************************************************************************)
(* Package inventory (all / install / unversion) of the analyzer and the   *)
(* operations that mutate it: get_packages, filter_packages and the two    *)
(* verify_packages backends (SystemAnalyzer's set-difference one, used by  *)
(* CentosAnalyzer, and UbuntuAnalyzer's error-marker one), plus the retry  *)
(* loop of analyzer/__main__.py.                                           *)
(*                                                                         *)
(* A package map is a function from a set of names to versions; the        *)
(* Python value False (the "unconstrained" version) is Unconstrained.      *)
(* An exception leaving an operation is recorded in last.ret together      *)
(* with the mutations made before it was raised.                           *)
(***************************************************************************)
EXTENDS Naturals, Sequences, FiniteSets, TLC

\* ---------------------------------------------------------------- bounds
\* Versions are opaque strings compared for equality only: 1..MaxVersion.
MaxVersion == 2

\* The version False written by the Unversion fallback.
Unconstrained == 0

Versions == 1..MaxVersion

\* Iteration order of a dict or list of names (insertion order in Python).
NameSeq == <<"git", "git-core", "vim">>

\* How many of these package names the host and the images may hold.
NumNames == 2

\* Package names, with their spelling (needed by `package in output`).
Names == {NameSeq[i] : i \in 1..NumNames}

NameText(n) ==
    CASE n = "git"      -> <<"g", "i", "t">>
      [] n = "git-core" -> <<"g", "i", "t", "-", "c", "o", "r", "e">>
      [] n = "vim"      -> <<"v", "i", "m">>

SeqOf(S) == SelectSeq(NameSeq, LAMBDA n : n \in S)

Range(s) == {s[i] : i \in DOMAIN s}

\* ---------------------------------------------------------- package maps
EmptyMap == <<>>

Without(m, S) == [n \in (DOMAIN m) \ S |-> m[n]]

With(m, n, v) == [x \in (DOMAIN m) \cup {n} |-> IF x = n THEN v ELSE m[x]]

\* Every listing a package manager can print: names with a known version.
Listings == UNION {[S -> Versions] : S \in SUBSET Names}

Modes == {"dry", "unversion", "delete"}

VARIABLES backend, host_pkgs, all_packages, install_packages,
          unversion_packages, last, pc, calls,
          image, containers,
          packages_files, vm_hashes, container_hashes,
          diff_configs, vm_configs, container_configs,
          args, result

\* The image handle and the containers the analyzer has started and not
\* removed.
engine_vars == <<image, containers>>

\* The state the file and config analysis keeps.
differ_vars == <<packages_files, vm_hashes, container_hashes,
                 diff_configs, vm_configs, container_configs>>

\* Arguments and result of a call of a function that keeps no state.
pure_vars == <<args, result>>

vars == <<backend, host_pkgs, all_packages, install_packages,
          unversion_packages, last, pc, calls, engine_vars, differ_vars,
          pure_vars>>

\* self.image: the base image pulled by the constructor, the image built
\* from the prelude of the error-marker backend (FROM, ENV, apt-get update),
\* or the image built from the manifest dockerize wrote for the given maps.
BaseImage == [kind |-> "base", install |-> <<>>, unversion |-> <<>>]

PreludeImage == [kind |-> "prelude", install |-> <<>>, unversion |-> <<>>]

ManifestImage(inst, unv) == [kind |-> "manifest", install |-> inst, unversion |-> unv]

NoArgs == <<>>

\* What a Dry call made right after a call, with the same probe responses,
\* computes.
NoAgain == [missing |-> {}, ret |-> "None"]

\* The record of the latest call: what was called, with which probe
\* responses, and how it ended (ret: the value returned, or the exception
\* raised).
NoCall ==
    [op |-> "none", mode |-> "none", strict |-> TRUE, ret |-> "None",
     missing |-> {}, listed |-> {}, rebuilt |-> EmptyMap,
     again |-> NoAgain]

\* ------------------------------------------------ dependency reduction
\* A few dependency functions get_dependencies may answer with.
NoDeps == [n \in Names |-> {}]

ChainDeps == [n \in Names |->
                 IF n = "git" THEN {"git-core"}
                 ELSE IF n = "git-core" THEN {"vim"} ELSE {}]

CycleDeps == [n \in Names |->
                 IF n = "git" THEN {"git-core"}
                 ELSE IF n = "git-core" THEN {"git"} ELSE {"git"}]

SelfDeps == [n \in Names |-> IF n = "git-core" THEN {"git-core", "libc"} ELSE {}]

DepFuncs == {NoDeps, ChainDeps, CycleDeps, SelfDeps}

\* Targets of the edges add_edge keeps: dependencies that are nodes.
Successors(n, nodes, deps) == deps[n] \cap nodes

RECURSIVE ReachSet(_, _, _)
ReachSet(S, nodes, deps) ==
    LET next == S \cup UNION {Successors(n, nodes, deps) : n \in S}
    IN  IF next = S THEN S ELSE ReachSet(next, nodes, deps)

\* Nodes reachable from n along one edge or more.
Reachable(n, nodes, deps) == ReachSet(Successors(n, nodes, deps), nodes, deps)

InDegreeZero(nodes, deps) ==
    {n \in nodes : ~ \E m \in nodes : n \in Successors(m, nodes, deps)}

\* Members of a strongly connected component of more than one node.
InLargeComponent(nodes, deps) ==
    {n \in nodes : \E m \in nodes \ {n} :
        /\ m \in Reachable(n, nodes, deps)
        /\ n \in Reachable(m, nodes, deps)}

analyze_dependencies(nodes, deps) ==
    nodes \ (InDegreeZero(nodes, deps) \cup InLargeComponent(nodes, deps))

\* ------------------------------------------------------ filter_packages
\* DefaultHits with the mismatch recorded for every default package, also
\* one that install_packages does not hold.
DefaultHitsUnguarded(inst, strict, base) ==
    {p \in DOMAIN base :
        (~strict) \/ (p \in DOMAIN inst /\ inst[p] = base[p])}

\* DefaultHits with the versions never compared.
DefaultHitsAnyVersion(inst, strict, base) == (DOMAIN base) \cap (DOMAIN inst)

\* The default packages whose entry the loop deletes from install_packages.
DefaultHits(inst, strict, base) ==
    {p \in (DOMAIN base) \cap (DOMAIN inst) : (~strict) \/ inst[p] = base[p]}

RecordDefaults(unv, hits, strict, base) ==
    IF strict THEN unv
    ELSE [x \in (DOMAIN unv) \cup hits |-> IF x \in hits THEN base[x] ELSE unv[x]]

\* Every way filter_packages can end.  `del` of a name that is no longer in
\* install_packages raises KeyError after the names the set iteration
\* visited first have been deleted.
FilterOutcomes(allp, inst, unv, strict, deps, base) ==
    IF DOMAIN allp = {}
    THEN {[inst |-> inst, unv |-> unv, ret |-> "AssertionError"]}
    ELSE LET remove == IF strict THEN {}
                       ELSE analyze_dependencies(DOMAIN allp, deps)
         IN  IF ~ (remove \subseteq DOMAIN inst)
             THEN {[inst |-> Without(inst, S), unv |-> unv, ret |-> "KeyError"] :
                      S \in SUBSET (remove \cap DOMAIN inst)}
             ELSE LET inst1 == Without(inst, remove)
                      hits  == DefaultHits(inst1, strict, base)
                  IN  {[inst |-> Without(inst1, hits),
                        unv  |-> RecordDefaults(unv, hits, strict, base),
                        ret  |-> "None"]}

\* ------------------------------------ verify_packages, set-difference
\* The text LIST_INSTALLED prints in a container listing the names `listed`:
\* one line per package, the name followed by its architecture suffix.
RECURSIVE Concat(_)
Concat(ss) == IF ss = <<>> THEN <<>> ELSE Head(ss) \o Concat(Tail(ss))

OutputText(listed) ==
    Concat([i \in 1..Len(SeqOf(listed)) |->
               NameText(SeqOf(listed)[i]) \o <<".", "\n">>])

\* Python's `package in output` on strings: an occurrence anywhere.
IsSubstring(p, t) ==
    \E i \in 1..(Len(t) + 1) :
        /\ i + Len(p) - 1 <= Len(t)
        /\ SubSeq(t, i, i + Len(p) - 1) = p

SystemMissing(inst, listed) ==
    {p \in DOMAIN inst : ~ IsSubstring(NameText(p), OutputText(listed))}

\* Unversion: both entries become False, then the version found in the
\* listing of the re-probe (run on the base image op_sys:version).
SystemUnversion(inst, unv, missing, reprobe) ==
    LET ver(p) == IF p \in DOMAIN reprobe THEN reprobe[p] ELSE Unconstrained
    IN  [inst |-> [x \in (DOMAIN inst) \cup missing |->
                      IF x \in missing THEN ver(x) ELSE inst[x]],
         unv  |-> [x \in (DOMAIN unv) \cup missing |->
                      IF x \in missing THEN ver(x) ELSE unv[x]]]

SystemDelete(inst, unv, missing) ==
    [inst |-> Without(inst, missing), unv |-> unv]

\* The verdict is `there == total`, counted before any fallback ran.
SystemVerdict(missing) == IF missing = {} THEN "True" ELSE "False"

SystemVerify(inst, unv, mode, listed, reprobe) ==
    IF DOMAIN inst = {}
    THEN [inst |-> inst, unv |-> unv, ret |-> "AssertionError", missing |-> {}]
    ELSE LET missing == SystemMissing(inst, listed)
             after ==
                 IF missing = {} \/ mode = "dry"
                 THEN [inst |-> inst, unv |-> unv]
                 ELSE IF mode = "unversion"
                 THEN SystemUnversion(inst, unv, missing, reprobe)
                 ELSE SystemDelete(inst, unv, missing)
         IN  [inst |-> after.inst, unv |-> after.unv,
              ret |-> SystemVerdict(missing), missing |-> missing]

\* The image verify_packages leaves in self.image: built from the manifest
\* of the maps the call started with, or, when Unversion mode found names
\* missing, from the manifest written after they were set to False.  The
\* container of the probe is removed in the `finally`.
SystemImage(img, inst, unv, mode, missing) ==
    IF DOMAIN inst = {} THEN img
    ELSE IF mode = "unversion" /\ missing # {}
    THEN LET u == SystemUnversion(inst, unv, missing, EmptyMap)
         IN  ManifestImage(u.inst, u.unv)
    ELSE ManifestImage(inst, unv)

\* -------------------------------------- verify_packages, error markers
\* What apt-get answers to `apt-get install` of the tokens of
\* _assemble_packages: name=version for install_packages, then name=version
\* or the bare name for unversion_packages.  A name of `unloc` cannot be
\* located at all; the pinned version of a name of `novers` is not found;
\* `other` is an error apt reports that names no package.
AptMissingPkgs(inst, unv, unloc) ==
    SeqOf((DOMAIN inst) \cap unloc) \o SeqOf((DOMAIN unv) \cap unloc)

AptMissingVers(inst, unv, novers) ==
    SeqOf((DOMAIN inst) \cap novers)
        \o SeqOf({n \in (DOMAIN unv) \cap novers : unv[n] # Unconstrained})

\* re.search("E: ", output)
AptHasError(inst, unv, unloc, novers, other) ==
    \/ other
    \/ AptMissingPkgs(inst, unv, unloc) # <<>>
    \/ AptMissingVers(inst, unv, novers) # <<>>

\* Delete: `del install_packages[p]`, then unversion_packages too.
RECURSIVE UbuntuDeleteLoop(_, _, _)
UbuntuDeleteLoop(inst, unv, todo) ==
    IF todo = <<>> THEN [inst |-> inst, unv |-> unv, exc |-> "None"]
    ELSE IF Head(todo) \notin DOMAIN inst
    THEN [inst |-> inst, unv |-> unv, exc |-> "KeyError"]
    ELSE UbuntuDeleteLoop(Without(inst, {Head(todo)}),
                          Without(unv, {Head(todo)}), Tail(todo))

\* UbuntuUnversionLoop keeping the name in install_packages, unconstrained.
UbuntuUnversionKeepsInstall(inst, unv, todo) ==
    [inst |-> [x \in (DOMAIN inst) \cup Range(todo) |->
                  IF x \in Range(todo) THEN Unconstrained ELSE inst[x]],
     unv  |-> [x \in (DOMAIN unv) \cup Range(todo) |->
                  IF x \in Range(todo) THEN Unconstrained ELSE unv[x]],
     exc  |-> "None"]

\* Unversion: `del install_packages[p]`, unversion_packages[p] = False.
RECURSIVE UbuntuUnversionLoop(_, _, _)
UbuntuUnversionLoop(inst, unv, todo) ==
    IF todo = <<>> THEN [inst |-> inst, unv |-> unv, exc |-> "None"]
    ELSE IF Head(todo) \notin DOMAIN inst
    THEN [inst |-> inst, unv |-> unv, exc |-> "KeyError"]
    ELSE UbuntuUnversionLoop(Without(inst, {Head(todo)}),
                             With(unv, Head(todo), Unconstrained), Tail(todo))

\* The tail of _run_fallback: the versions of unversion_packages are read
\* from `listing`, and the fallback was sufficient if none is still gone.
UbuntuRecover(inst, unv, listing) ==
    IF DOMAIN inst = {}
    THEN [inst |-> inst, unv |-> unv, ret |-> "AssertionError"]
    ELSE [inst |-> inst,
          unv  |-> [x \in DOMAIN unv |->
                       IF x \in DOMAIN listing THEN listing[x] ELSE unv[x]],
          ret  |-> IF (DOMAIN unv) \subseteq (DOMAIN listing)
                   THEN "True" ELSE "False"]

\* What the second install attempt of _run_fallback leads to.
UbuntuAfterFallback(inst, unv, unloc, novers, other, listing) ==
    LET pkgs == AptMissingPkgs(inst, unv, unloc)
        vers == AptMissingVers(inst, unv, novers)
        ret  == ~ AptHasError(inst, unv, unloc, novers, other)
    IN  IF pkgs = <<>> /\ vers = <<>>
        THEN [inst |-> inst, unv |-> unv, ret |-> "False"]
        ELSE IF ~ret
        THEN [inst |-> inst, unv |-> unv, ret |-> "False"]
        ELSE UbuntuRecover(inst, unv, listing)

\* UbuntuRunFallback without the early return of Dry mode.
UbuntuRunFallbackDryActs(inst, unv, missing, mode, unloc, novers, other, listing) ==
    LET r == IF mode = "unversion"
             THEN UbuntuUnversionLoop(inst, unv, missing)
             ELSE UbuntuDeleteLoop(inst, unv, missing)
    IN  IF r.exc # "None"
        THEN [inst |-> r.inst, unv |-> r.unv, ret |-> r.exc]
        ELSE UbuntuAfterFallback(r.inst, r.unv, unloc, novers, other, listing)

UbuntuRunFallback(inst, unv, missing, mode, unloc, novers, other, listing) ==
    IF mode = "dry"
    THEN [inst |-> inst, unv |-> unv, ret |-> "False"]
    ELSE LET r == IF mode = "delete"
                  THEN UbuntuDeleteLoop(inst, unv, missing)
                  ELSE UbuntuUnversionLoop(inst, unv, missing)
         IN  IF r.exc # "None"
             THEN [inst |-> r.inst, unv |-> r.unv, ret |-> r.exc]
             ELSE UbuntuAfterFallback(r.inst, r.unv, unloc, novers, other,
                                      listing)

UbuntuVerify(inst, unv, mode, unloc, novers, other, listing) ==
    IF DOMAIN inst = {}
    THEN [inst |-> inst, unv |-> unv, ret |-> "AssertionError", missing |-> {}]
    ELSE LET pkgs == AptMissingPkgs(inst, unv, unloc)
             vers == AptMissingVers(inst, unv, novers)
         IN  IF ~ AptHasError(inst, unv, unloc, novers, other)
             THEN [inst |-> inst, unv |-> unv, ret |-> "True", missing |-> {}]
             ELSE IF pkgs = <<>> /\ vers = <<>>
             THEN [inst |-> inst, unv |-> unv, ret |-> "False", missing |-> {}]
             ELSE LET r == UbuntuRunFallback(inst, unv, pkgs \o vers, mode,
                                             unloc, novers, other, listing)
                  IN  [inst |-> r.inst, unv |-> r.unv, ret |-> r.ret,
                       missing |-> Range(pkgs \o vers)]

\* The image the error-marker backend builds holds the prelude only; the
\* packages are installed by the command of a container that is removed.
UbuntuImage(img, inst) == IF DOMAIN inst = {} THEN img ELSE PreludeImage

\* ------------------------------------------------------- state machine
ListingsOver(S) == UNION {[T -> Versions] : T \in SUBSET S}

\* What the source host lists.  Versions are only ever compared with the
\* host's version of the same package, so the host's is called 1.
HostListings == {h \in Listings : \A n \in DOMAIN h : h[n] = 1}

\* The listing _run_fallback reads after a sufficient fallback; the
\* command is run only when the second install attempt ends without an
\* error but with a marker.
UbuntuListings(inst, unv, missing, mode, unloc, novers, other) ==
    LET r == IF mode = "delete"
             THEN UbuntuDeleteLoop(inst, unv, SeqOf(missing))
             ELSE UbuntuUnversionLoop(inst, unv, SeqOf(missing))
    IN  IF /\ mode # "dry"
           /\ ~ AptHasError(r.inst, r.unv, unloc, novers, other)
           /\ AptMissingPkgs(r.inst, r.unv, unloc)
                \o AptMissingVers(r.inst, r.unv, novers) # <<>>
        THEN Listings ELSE {EmptyMap}

\* What the constructor leaves besides the inventory.
StartOfSession ==
    /\ image = BaseImage
    /\ containers = 0
    /\ packages_files = EmptyMap
    /\ vm_hashes = EmptyMap
    /\ container_hashes = EmptyMap
    /\ diff_configs = {}
    /\ vm_configs = {}
    /\ container_configs = {}
    /\ args = NoArgs
    /\ result = NoArgs

Init ==
    /\ backend \in {"centos", "ubuntu"}
    /\ host_pkgs \in HostListings
    /\ all_packages = EmptyMap
    /\ install_packages = EmptyMap
    /\ unversion_packages = EmptyMap
    /\ last = NoCall
    /\ pc = "free"
    /\ calls = <<>>
    /\ StartOfSession

\* get_packages: the host's listing becomes all_packages, install_packages
\* a copy of it; unversion_packages is not touched.
DoGetPackages ==
    /\ all_packages' = host_pkgs
    /\ install_packages' = host_pkgs
    /\ last' = [NoCall EXCEPT !.op = "get_packages"]
    /\ UNCHANGED <<backend, host_pkgs, unversion_packages, engine_vars>>

\* DoFilterPackages on an install_packages that is all_packages itself
\* instead of a copy of it.
DoFilterPackagesAliased(strict) ==
    \E deps \in (IF strict THEN {NoDeps} ELSE DepFuncs), base \in Listings :
        \E r \in FilterOutcomes(all_packages, install_packages,
                                unversion_packages, strict, deps, base) :
            /\ install_packages' = r.inst
            /\ all_packages' = r.inst
            /\ unversion_packages' = r.unv
            /\ last' = [NoCall EXCEPT !.op = "filter_packages",
                                      !.strict = strict,
                                      !.ret = r.ret]
            /\ UNCHANGED <<backend, host_pkgs, engine_vars>>

DoFilterPackages(strict) ==
    \E deps \in (IF strict THEN {NoDeps} ELSE DepFuncs), base \in Listings :
        \E r \in FilterOutcomes(all_packages, install_packages,
                                unversion_packages, strict, deps, base) :
            /\ install_packages' = r.inst
            /\ unversion_packages' = r.unv
            /\ last' = [NoCall EXCEPT !.op = "filter_packages",
                                      !.strict = strict,
                                      !.ret = r.ret]
            /\ UNCHANGED <<backend, host_pkgs, all_packages, engine_vars>>

VerifyRecord(mode, listed, rebuilt, r, again) ==
    [NoCall EXCEPT !.op = "verify_packages",
                   !.mode = mode,
                   !.ret = r.ret,
                   !.missing = r.missing,
                   !.listed = listed,
                   !.rebuilt = rebuilt,
                   !.again = [missing |-> again.missing, ret |-> again.ret]]

\* SystemAnalyzer.verify_packages (CentosAnalyzer inherits it).  `listed`
\* are the names in the built image's listing, `reprobe` the listing of the
\* re-probe of Unversion mode, `rebuilt` what the image rebuilt with the
\* unconstrained directive lists for the missing names (never read).
DoVerifySystem(mode) ==
    /\ backend = "centos"
    /\ \E listed \in SUBSET Names :
         LET missing == SystemMissing(install_packages, listed)
             fresh   == IF mode = "unversion" /\ install_packages # EmptyMap
                        THEN ListingsOver(missing) ELSE {EmptyMap}
         IN  \E reprobe \in fresh, rebuilt \in fresh :
               LET r == SystemVerify(install_packages, unversion_packages,
                                     mode, listed, reprobe)
               IN  /\ install_packages' = r.inst
                   /\ unversion_packages' = r.unv
                   /\ last' = VerifyRecord(mode, listed, rebuilt, r,
                                  SystemVerify(r.inst, r.unv, "dry", listed,
                                               EmptyMap))
                   /\ image' = SystemImage(image, install_packages,
                                           unversion_packages, mode, missing)
    /\ UNCHANGED <<backend, host_pkgs, all_packages, containers>>

\* UbuntuAnalyzer.verify_packages with _run_fallback.  `rebuilt` lists, for
\* the missing names, what the unconstrained install finds: a version for
\* every name apt can locate.
DoVerifyUbuntu(mode) ==
    /\ backend = "ubuntu"
    /\ \E unloc \in SUBSET ((DOMAIN install_packages) \cup (DOMAIN unversion_packages)) :
       \E novers \in SUBSET (((DOMAIN install_packages) \cup (DOMAIN unversion_packages)) \ unloc),
          other \in BOOLEAN :
         LET pkgs == AptMissingPkgs(install_packages, unversion_packages, unloc)
             vers == AptMissingVers(install_packages, unversion_packages, novers)
             missing == Range(pkgs \o vers)
             fresh == IF mode = "unversion" /\ install_packages # EmptyMap
                      THEN [missing \ unloc -> Versions] ELSE {EmptyMap}
         IN  \E rebuilt \in fresh,
                listing \in UbuntuListings(install_packages, unversion_packages,
                                           missing, mode, unloc, novers, other) :
               LET r == UbuntuVerify(install_packages, unversion_packages,
                                     mode, unloc, novers, other, listing)
               IN  /\ install_packages' = r.inst
                   /\ unversion_packages' = r.unv
                   /\ last' = VerifyRecord(mode, {}, rebuilt, r,
                                  UbuntuVerify(r.inst, r.unv, "dry", unloc,
                                               novers, other, EmptyMap))
                   /\ image' = UbuntuImage(image, install_packages)
    /\ UNCHANGED <<backend, host_pkgs, all_packages, containers>>

GetPackages ==
    /\ pc = "free"
    /\ DoGetPackages
    /\ UNCHANGED <<pc, calls, differ_vars, pure_vars>>

FilterPackages ==
    /\ pc = "free"
    /\ \E strict \in BOOLEAN : DoFilterPackages(strict)
    /\ UNCHANGED <<pc, calls, differ_vars, pure_vars>>

VerifySystem ==
    /\ pc = "free"
    /\ \E mode \in Modes : DoVerifySystem(mode)
    /\ UNCHANGED <<pc, calls, differ_vars, pure_vars>>

VerifyUbuntu ==
    /\ pc = "free"
    /\ \E mode \in Modes : DoVerifyUbuntu(mode)
    /\ UNCHANGED <<pc, calls, differ_vars, pure_vars>>

Next == GetPackages \/ FilterPackages \/ VerifySystem \/ VerifyUbuntu

Spec == Init /\ [][Next]_vars

\* ------------------------------------------- the driver, __main__.py
\* The modes the loop runs through, in its order.
DriverModes == <<"dry", "unversion", "delete">>

IsException(ret) == ret \in {"KeyError", "AssertionError"}

\* AfterVerify without the `break` on a true verdict.
AfterVerifyNoBreak(ret, n) ==
    IF IsException(ret) THEN "crashed"
    ELSE IF n = Len(DriverModes) THEN "dockerize"
    ELSE "verify"

\* Where the loop goes after a verify_packages call that was the n-th:
\* `break` on a true verdict, on to dockerize when the modes are used up.
AfterVerify(ret, n) ==
    IF IsException(ret) THEN "crashed"
    ELSE IF ret = "True" \/ n = Len(DriverModes) THEN "dockerize"
    ELSE "verify"

DriverInit ==
    /\ backend \in {"centos", "ubuntu"}
    /\ host_pkgs \in HostListings
    /\ all_packages = EmptyMap
    /\ install_packages = EmptyMap
    /\ unversion_packages = EmptyMap
    /\ last = NoCall
    /\ pc = "get_packages"
    /\ calls = <<>>
    /\ StartOfSession

DriverGetPackages ==
    /\ pc = "get_packages"
    /\ DoGetPackages
    /\ pc' = "filter_packages"
    /\ UNCHANGED <<calls, differ_vars, pure_vars>>

\* filter_packages() is called with its default, strict_versioning=True.
DriverFilterPackages ==
    /\ pc = "filter_packages"
    /\ DoFilterPackages(TRUE)
    /\ pc' = IF IsException(last'.ret) THEN "crashed" ELSE "verify"
    /\ UNCHANGED <<calls, differ_vars, pure_vars>>

DriverVerify ==
    /\ pc = "verify"
    /\ LET mode == DriverModes[Len(calls) + 1]
       IN  DoVerifySystem(mode) \/ DoVerifyUbuntu(mode)
    /\ calls' = Append(calls,
                    [mode |-> last'.mode, ret |-> last'.ret,
                     pre_install |-> install_packages,
                     pre_unversion |-> unversion_packages,
                     post_install |-> install_packages',
                     post_unversion |-> unversion_packages'])
    /\ pc' = AfterVerify(last'.ret, Len(calls'))
    /\ UNCHANGED <<differ_vars, pure_vars>>

\* dockerize(tempfile.mkdtemp()) asserts that install_packages is not empty.
DriverDockerize ==
    /\ pc = "dockerize"
    /\ pc' = IF DOMAIN install_packages = {} THEN "crashed" ELSE "done"
    /\ UNCHANGED <<backend, host_pkgs, all_packages, install_packages,
                   unversion_packages, last, calls, engine_vars,
                   differ_vars, pure_vars>>

DriverNext ==
    DriverGetPackages \/ DriverFilterPackages \/ DriverVerify \/ DriverDockerize

SpecDriver == DriverInit /\ [][DriverNext]_vars

\* ------------------------------------------- file and config analysis
\* Paths the analysis of a session looks at.
PathSeq == <<"/etc/motd", "/etc/hosts">>

NumPaths == 1

SessionPaths == {PathSeq[i] : i \in 1..NumPaths}

\* Checksums are compared for equality only: 1..MaxHash; the source host's
\* checksum of a path is called 1.
MaxHash == 2

Hashes == 1..MaxHash

VmHash == 1

\* The containers the analyzer may leave behind before the model stops
\* counting.
MaxContainers == 2

\* compare_names: only on the container, on both, only on the VM.
CompareSets(docker_filenames, vm_filenames) ==
    [just_cont |-> docker_filenames \ vm_filenames,
     shared    |-> vm_filenames \cap docker_filenames,
     just_vm   |-> vm_filenames \ docker_filenames]

\* get_hash_from_container / get_hash_from_vm: an entry is written for every
\* line cksum prints; no entry is ever taken out.
HashInto(hashes, found) ==
    [p \in (DOMAIN hashes) \cup (DOMAIN found) |->
        IF p \in DOMAIN found THEN found[p] ELSE hashes[p]]

\* get_file_pkg_assocs, called by examine_files_and_packages when
\* packages_files is empty.
get_file_pkg_assocs(pf, owned) == IF DOMAIN pf = {} THEN owned ELSE pf

\* Where a call of analyze_files may fail: the container engine's run call
\* in compare_names, in get_hash_from_container or in
\* examine_files_and_packages, or a line that does not parse.
AnalyzeFaults ==
    {"none", "compare_run", "hash_run", "hash_parse", "examine_run",
     "examine_parse"}

\* analyze_files for one folder of the allowlist.  vm_files and cont_files
\* are what find prints on either side, vm_found and cont_found what cksum
\* prints for the shared names, owned the answer of list_files_in_packages.
\* started: containers run; removed: containers removed again.
analyze_files(fault, vmh, ch, pf, vm_files, cont_files, vm_found, cont_found, owned) ==
    LET shared == CompareSets(cont_files, vm_files).shared
        ch1  == HashInto(ch, cont_found)
        vmh1 == HashInto(vmh, vm_found)
        same(ret, st, rm) ==
            [vm_hashes |-> vmh, container_hashes |-> ch, packages_files |-> pf,
             probed_vm |-> {}, probed_container |-> {},
             started |-> st, removed |-> rm, ret |-> ret]
        hashed(pf1, ret, st, rm) ==
            [vm_hashes |-> vmh1, container_hashes |-> ch1,
             packages_files |-> pf1,
             probed_vm |-> DOMAIN vm_found, probed_container |-> DOMAIN cont_found,
             started |-> st, removed |-> rm, ret |-> ret]
        n == IF shared = {} THEN 1 ELSE 2
    IN  IF fault = "compare_run" THEN same("UnboundLocalError", 0, 0)
        ELSE IF shared # {} /\ fault = "hash_run"
        THEN same("UnboundLocalError", 1, 1)
        ELSE IF shared # {} /\ fault = "hash_parse"
        THEN same("ValueError", 2, 2)
        ELSE IF ~ (shared \subseteq (DOMAIN ch1) \cap (DOMAIN vmh1))
        THEN hashed(pf, "KeyError", n, n)
        ELSE IF fault = "examine_run"
        THEN hashed(get_file_pkg_assocs(pf, owned), "APIError", n, n)
        ELSE IF fault = "examine_parse"
        THEN hashed(get_file_pkg_assocs(pf, owned), "IndexError", n + 1, n)
        ELSE hashed(get_file_pkg_assocs(pf, owned), "None", n + 1, n)

ConfigFaults == {"none", "hash_run", "hash_parse"}

\* get_config_differences.  configs is the union of get_config_files_for
\* over all_packages, vm_found and cont_found what cksum prints for them.
get_config_differences(fault, allp, vmh, ch, configs, vm_found, cont_found) ==
    LET ch1  == HashInto(ch, cont_found)
        vmh1 == HashInto(vmh, vm_found)
        out(v, c, sets, ret, st) ==
            [vm_hashes |-> v, container_hashes |-> c,
             probed_vm |-> IF configs = {} THEN {} ELSE DOMAIN vm_found,
             probed_container |->
                 IF configs = {} \/ fault = "hash_run" THEN {} ELSE DOMAIN cont_found,
             vm_configs |-> IF sets THEN configs \cap DOMAIN v ELSE {},
             container_configs |-> IF sets THEN configs \cap DOMAIN c ELSE {},
             diff_configs |->
                 IF sets
                 THEN {p \in configs \cap (DOMAIN v) \cap (DOMAIN c) : v[p] # c[p]}
                 ELSE {},
             started |-> st, removed |-> st, ret |-> ret]
    IN  IF configs = {} THEN out(vmh, ch, TRUE, "None", 0)
        ELSE IF fault = "hash_run" THEN out(vmh1, ch, FALSE, "UnboundLocalError", 0)
        ELSE IF fault = "hash_parse" THEN out(vmh1, ch, FALSE, "ValueError", 1)
        ELSE out(vmh1, ch1, TRUE, "None", 1)

\* Maps from a subset of S to checksums.
FoundOver(S, H) == UNION {[T -> H] : T \in SUBSET S}

\* What a call of the analysis observed: the paths cksum printed on either
\* side during the call.
Observed(probed_vm, probed_container) ==
    [probed_vm |-> probed_vm, probed_container |-> probed_container]

\* What the two sides answer.  In a stable environment every path exists on
\* both sides while the analysis runs and no call fails; otherwise a path may
\* be missing on a side, a file find printed may be gone when cksum runs,
\* and a call may fail.
FaultsOf(S, stable) == IF stable THEN {"none"} ELSE S

FileSets(stable) == IF stable THEN {SessionPaths} ELSE SUBSET SessionPaths

FoundOn(S, H, stable) == IF stable THEN [S -> H] ELSE FoundOver(S, H)

DoAnalyzeFiles(stable) ==
    /\ containers < MaxContainers
    /\ \E fault \in FaultsOf(AnalyzeFaults, stable),
          vm_files \in FileSets(stable), cont_files \in FileSets(stable),
          owned \in {[n \in DOMAIN all_packages |-> SessionPaths]} :
         \E vm_found \in FoundOn(vm_files \cap cont_files, {VmHash}, stable),
            cont_found \in FoundOn(vm_files \cap cont_files, Hashes, stable) :
           LET r == analyze_files(fault, vm_hashes, container_hashes,
                                  packages_files, vm_files, cont_files,
                                  vm_found, cont_found, owned)
           IN  /\ vm_hashes' = r.vm_hashes
               /\ container_hashes' = r.container_hashes
               /\ packages_files' = r.packages_files
               /\ containers' = containers + r.started - r.removed
               /\ last' = [NoCall EXCEPT !.op = "analyze_files", !.ret = r.ret]
               /\ result' = Observed(r.probed_vm, r.probed_container)
    /\ UNCHANGED <<backend, host_pkgs, all_packages, install_packages,
                   unversion_packages, image, diff_configs, vm_configs,
                   container_configs, args>>

DoGetConfigDifferences(stable) ==
    /\ all_packages # EmptyMap
    /\ \E fault \in FaultsOf(ConfigFaults, stable), configs \in FileSets(stable) :
         \E vm_found \in FoundOn(configs, {VmHash}, stable),
            cont_found \in FoundOn(configs, Hashes, stable) :
           LET r == get_config_differences(fault, all_packages, vm_hashes,
                                           container_hashes, configs,
                                           vm_found, cont_found)
           IN  /\ vm_hashes' = r.vm_hashes
               /\ container_hashes' = r.container_hashes
               /\ vm_configs' = r.vm_configs
               /\ container_configs' = r.container_configs
               /\ diff_configs' = r.diff_configs
               /\ last' = [NoCall EXCEPT !.op = "get_config_differences",
                                         !.ret = r.ret]
               /\ result' = Observed(r.probed_vm, r.probed_container)
    /\ UNCHANGED <<backend, host_pkgs, all_packages, install_packages,
                   unversion_packages, engine_vars, packages_files, args>>

\* The session of __main__.py: the driver, then the file analysis and the
\* config analysis, which a caller may run again.
SessionAnalyzeFiles ==
    pc = "done" /\ DoAnalyzeFiles(TRUE) /\ UNCHANGED <<pc, calls>>

SessionGetConfigDifferences ==
    pc = "done" /\ DoGetConfigDifferences(TRUE) /\ UNCHANGED <<pc, calls>>

SessionNext ==
    \/ DriverGetPackages
    \/ DriverFilterPackages
    \/ DriverVerify
    \/ DriverDockerize
    \/ SessionAnalyzeFiles
    \/ SessionGetConfigDifferences

SpecSession == DriverInit /\ [][SessionNext]_vars

\* The analysis called in any order on an inventory get_packages filled, in
\* an environment that changes between and during the calls.
AnalyzeFiles ==
    pc = "free" /\ DoAnalyzeFiles(FALSE) /\ UNCHANGED <<pc, calls>>

GetConfigDifferences ==
    pc = "free" /\ DoGetConfigDifferences(FALSE) /\ UNCHANGED <<pc, calls>>

DifferNext == GetPackages \/ AnalyzeFiles \/ GetConfigDifferences

SpecDiffer == Init /\ [][DifferNext]_vars

\* ------------------------------------- analyze_dependencies, as called
\* Node names of the dependency graphs, in the order a dict of them is
\* iterated.
DepNodeSeq == <<"a", "b", "c", "d", "e">>

NumDepNodes == 3

DepNodes == {DepNodeSeq[i] : i \in 1..NumDepNodes}

\* test_simple_graph: a <- b -> e, a -> c -> b, d -> c.
SimpleGraph ==
    [nodes |-> {"a", "b", "c", "d", "e"},
     deps  |-> [n \in {"a", "b", "c", "d", "e"} |->
                   CASE n = "a" -> {"c"}
                     [] n = "b" -> {"a", "e"}
                     [] n = "c" -> {"b"}
                     [] n = "d" -> {"c"}
                     [] n = "e" -> {}]]

\* test_two_dependent_graph, without the letters no edge touches.
TwoDependentGraph ==
    [nodes |-> {"a", "b", "z", "p", "t", "s", "y", "q", "i", "e", "u", "x"},
     deps  |-> [n \in {"a", "b", "z", "p", "t", "s", "y", "q", "i", "e", "u", "x"} |->
                   CASE n = "x" -> {"a", "b", "z", "p", "t", "s", "y"}
                     [] n = "y" -> {"a", "b", "q", "i", "e", "u"}
                     [] n = "q" -> {"x"}
                     [] OTHER -> {}]]

\* Every node set within DepNodes with every dependency function on it whose
\* answers are within DepNodes (names outside the node set included), and
\* the graphs of the tests.
DepInputs ==
    {[nodes |-> N, deps |-> d] :
        <<N, d>> \in UNION {{<<M, f>> : f \in [M -> SUBSET DepNodes]} :
                             M \in SUBSET DepNodes}}
    \cup {SimpleGraph, TwoDependentGraph}

\* Iteration order of the graph's nodes: insertion order, or any other.
NodeOrder(nodes) ==
    LET all == DepNodeSeq \o <<"i", "p", "q", "s", "t", "u", "x", "y", "z">>
    IN  SelectSeq(all, LAMBDA n : n \in nodes)

RECURSIVE Reverse(_)
Reverse(q) == IF q = <<>> THEN <<>> ELSE Append(Reverse(Tail(q)), Head(q))

\* full_g.in_degree(): the number of edges that end in n; an edge from n to
\* n is one of them.
in_degree(n, nodes, deps) ==
    Cardinality({m \in nodes : n \in Successors(m, nodes, deps)})

\* strongly_connected_components finding every node alone.
singleton_components(order, nodes, deps) ==
    [i \in 1..Len(order) |-> {order[i]}]

\* nx.strongly_connected_components: the components in the order in which
\* the walk over `order` finds them.
RECURSIVE strongly_connected_components(_, _, _)
strongly_connected_components(order, nodes, deps) ==
    IF order = <<>> THEN <<>>
    ELSE LET n == Head(order)
             comp == {n} \cup {m \in nodes :
                                  /\ m \in Reachable(n, nodes, deps)
                                  /\ n \in Reachable(m, nodes, deps)}
             rest == SelectSeq(Tail(order), LAMBDA m : m \notin comp)
         IN  <<comp>> \o strongly_connected_components(rest, nodes, deps)

\* The loop over g_list that adds the nodes of every large component.
RECURSIVE AddLargeComponents(_, _, _)
AddLargeComponents(filtered_pkgs, g_list, node_set) ==
    IF g_list = <<>> THEN filtered_pkgs
    ELSE AddLargeComponents(filtered_pkgs \cup (Head(g_list) \cap node_set),
                            Tail(g_list), node_set)

\* analyze_dependencies, computed as the code does, walking the nodes in
\* `order`.
analyze_dependencies_walk(order, deps) ==
    LET node_set == Range(order)
        filtered_pkgs == {n \in node_set : in_degree(n, node_set, deps) = 0}
        g_list == SelectSeq(strongly_connected_components(order, node_set, deps),
                            LAMBDA c : Cardinality(c) > 1)
    IN  node_set \ AddLargeComponents(filtered_pkgs, g_list, node_set)

PureInit ==
    /\ backend = "centos"
    /\ host_pkgs = EmptyMap
    /\ all_packages = EmptyMap
    /\ install_packages = EmptyMap
    /\ unversion_packages = EmptyMap
    /\ last = NoCall
    /\ calls = <<>>
    /\ image = BaseImage
    /\ containers = 0
    /\ packages_files = EmptyMap
    /\ vm_hashes = EmptyMap
    /\ container_hashes = EmptyMap
    /\ diff_configs = {}
    /\ vm_configs = {}
    /\ container_configs = {}
    /\ result = NoArgs

pure_frame ==
    <<backend, host_pkgs, all_packages, install_packages,
      unversion_packages, last, calls, engine_vars, differ_vars, args>>

DepsInit == PureInit /\ pc = "analyze_dependencies" /\ args \in DepInputs

\* One call of analyze_dependencies; `reversed` is what the call computes
\* when the nodes come in the opposite order, `by_sets` what filter_packages
\* is modelled to get.
CallAnalyzeDependencies ==
    /\ pc = "analyze_dependencies"
    /\ result' = [removable |-> analyze_dependencies_walk(NodeOrder(args.nodes), args.deps),
                  reversed  |-> analyze_dependencies_walk(
                                    Reverse(NodeOrder(args.nodes)), args.deps),
                  by_sets   |-> analyze_dependencies(args.nodes, args.deps)]
    /\ pc' = "returned"
    /\ UNCHANGED pure_frame

DepsNext == CallAnalyzeDependencies

SpecDeps == DepsInit /\ [][DepsNext]_vars

\* ------------------------------------------ examine_files_and_packages
\* Files the classification looks at, and the packages that may own them.
FileSeq == <<"/usr/bin/git", "/etc/gitconfig", "/etc/motd">>

NumFiles == 1

Files == {FileSeq[i] : i \in 1..NumFiles}

NumOwners == 2

Owners == {NameSeq[i] : i \in 1..NumOwners}

\* The source host's version of a package is called 1; the container holds
\* that version, this other one, or none.
OtherVersion == 2

\* `pkg in cont_pkgs and self.all_packages[pkg] == cont_pkgs[pkg]`
VersionMatches(pkg, allp, cont_pkgs) ==
    pkg \in DOMAIN cont_pkgs /\ allp[pkg] = cont_pkgs[pkg]

\* The classification with the two one-sided sets taken for each other.
examine_sides_swapped(allp, pfiles, cont_pkgs, changed, just_cont, shared, just_vm) ==
    LET seen == UNION {pfiles[pkg] : pkg \in DOMAIN allp}
        ok(pkg) == VersionMatches(pkg, allp, cont_pkgs)
        hit(f, pkg) == f \in pfiles[pkg] /\ (ok(pkg) \/ f \in changed[pkg])
        miss(f, pkg) == f \in pfiles[pkg] /\ ~ ok(pkg) /\ f \notin changed[pkg]
    IN  [added_files |->
            {f \in seen \cap just_cont : \E pkg \in DOMAIN allp : hit(f, pkg)},
         deleted_files |-> seen \cap just_vm,
         modified_files |->
            {f \in seen \cap shared : \E pkg \in DOMAIN allp : hit(f, pkg)},
         ver_mismatch_files |->
            {f \in seen \cap (just_cont \cup shared) :
                \E pkg \in DOMAIN allp : miss(f, pkg)},
         different_files_not_from_pkgs |->
            (just_cont \ seen) \cup (just_vm \ seen) \cup (shared \ seen)]

\* The classification without the integrity check of the packages whose
\* versions differ.
examine_without_probe(allp, pfiles, cont_pkgs, changed, just_cont, shared, just_vm) ==
    LET seen == UNION {pfiles[pkg] : pkg \in DOMAIN allp}
    IN  [added_files |-> seen \cap just_vm,
         deleted_files |-> seen \cap just_cont,
         modified_files |-> seen \cap shared,
         ver_mismatch_files |-> {},
         different_files_not_from_pkgs |->
            (just_cont \ seen) \cup (just_vm \ seen) \cup (shared \ seen)]

\* examine_files_and_packages(blocklist, just_cont, shared, just_vm), with
\* cont_pkgs the parsed listing of the container and changed[pkg] the answer
\* of files_changed_from_package(pkg).
examine_files_and_packages(allp, pfiles, cont_pkgs, changed, just_cont, shared, just_vm) ==
    LET owned(f, pkg) == f \in pfiles[pkg]
        ok(pkg) == VersionMatches(pkg, allp, cont_pkgs)
        seen == UNION {pfiles[pkg] : pkg \in DOMAIN allp}
        in_vm(f)     == f \in just_vm
        in_cont(f)   == f \notin just_vm /\ f \in just_cont
        in_shared(f) == f \notin just_vm /\ f \notin just_cont /\ f \in shared
    IN  [added_files |->
            {f \in seen : \E pkg \in DOMAIN allp :
                /\ owned(f, pkg) /\ in_vm(f)
                /\ (ok(pkg) \/ f \in changed[pkg])},
         deleted_files |->
            {f \in seen : \E pkg \in DOMAIN allp : owned(f, pkg) /\ in_cont(f)},
         modified_files |->
            {f \in seen : \E pkg \in DOMAIN allp :
                /\ owned(f, pkg) /\ in_shared(f)
                /\ (ok(pkg) \/ f \in changed[pkg])},
         ver_mismatch_files |->
            {f \in seen : \E pkg \in DOMAIN allp :
                /\ owned(f, pkg) /\ ~ ok(pkg) /\ f \notin changed[pkg]
                /\ (in_vm(f) \/ in_shared(f))},
         different_files_not_from_pkgs |->
            (just_cont \ seen) \cup (just_vm \ seen) \cup (shared \ seen)]

\* The shared files analyze_files hands over: those whose checksums differ.
modified_of(shared, differing) == shared \cap differing

\* A three-way split of Files as compare_names returns it, with the shared
\* files whose checksums differ.
Splits ==
    {[just_cont |-> c, shared |-> sh, just_vm |-> v, differing |-> d] :
        <<c, sh, v, d>> \in
            {q \in (SUBSET Files) \X (SUBSET Files) \X (SUBSET Files) \X (SUBSET Files) :
                /\ q[1] \cap q[2] = {} /\ q[1] \cap q[3] = {} /\ q[2] \cap q[3] = {}
                /\ q[4] \subseteq q[2]}}

\* What each package owns, with the owned files its integrity check flags.
Ownerships ==
    {f \in [Owners -> (SUBSET Files) \X (SUBSET Files)] :
        \A pkg \in Owners : f[pkg][2] \subseteq f[pkg][1]}

ContainerListings == UNION {[T -> {1, OtherVersion}] : T \in SUBSET Owners}

ClassifyInit ==
    /\ backend \in {"centos", "ubuntu"}
    /\ host_pkgs = [pkg \in Owners |-> 1]
    /\ all_packages = host_pkgs
    /\ install_packages = host_pkgs
    /\ unversion_packages = EmptyMap
    /\ last = NoCall
    /\ calls = <<>>
    /\ image = BaseImage
    /\ containers = 0
    /\ \E own \in Ownerships :
         /\ packages_files = [pkg \in Owners |-> own[pkg][1]]
         /\ \E split \in Splits, cont_pkgs \in ContainerListings :
              args = [just_cont |-> split.just_cont, shared |-> split.shared,
                      just_vm |-> split.just_vm, differing |-> split.differing,
                      cont_pkgs |-> cont_pkgs,
                      changed |-> [pkg \in Owners |-> own[pkg][2]]]
    /\ vm_hashes = EmptyMap
    /\ container_hashes = EmptyMap
    /\ diff_configs = {}
    /\ vm_configs = {}
    /\ container_configs = {}
    /\ result = NoArgs
    /\ pc = "examine_files_and_packages"

\* analyze_files, lines 395-397: the call of examine_files_and_packages
\* with the shared files that differ.  The container it lists the packages
\* in stays.
CallExamine ==
    /\ pc = "examine_files_and_packages"
    /\ result' = examine_files_and_packages(
                     all_packages, packages_files, args.cont_pkgs, args.changed,
                     args.just_cont, modified_of(args.shared, args.differing),
                     args.just_vm)
    /\ containers' = containers + 1
    /\ last' = [NoCall EXCEPT !.op = "examine_files_and_packages"]
    /\ pc' = "returned"
    /\ UNCHANGED <<backend, host_pkgs, all_packages, install_packages,
                   unversion_packages, calls, image, differ_vars, args>>

ClassifyNext == CallExamine

SpecClassify == ClassifyInit /\ [][ClassifyNext]_vars

\* ------------------------------------------------------ compare_names
\* Paths are text: sequences of the characters "/", ".", "*" and the
\* one-letter file names of Components.
Components == {"a", "b"}

MaxDepth == 2

\* The blocklist entries a call is given, and the files find lists on a side.
MaxBlocklist == 1

MaxListed == 1

RECURSIVE JoinAbs(_)
\* '/' + '/'.join(names)
JoinAbs(names) ==
    IF names = <<>> THEN <<>> ELSE <<"/", Head(names)>> \o JoinAbs(Tail(names))

NamesUpTo(d) == UNION {[1..k -> Components] : k \in 1..d}

\* What `find . -type f` prints for a file: './x/y'.
RelPaths == {<<".">> \o JoinAbs(names) : names \in NamesUpTo(MaxDepth)}

\* Blocklist entries: /path/file, or /path/folder/* for a folder.
BlockEntries ==
    {JoinAbs(names) : names \in NamesUpTo(MaxDepth + 1)}
        \cup {JoinAbs(names) \o <<"/", "*">> : names \in NamesUpTo(MaxDepth)}

Locations == {<<"/">>, <<"/", "a">>, <<"/", "a", "/">>}

RECURSIVE rstrip(_, _)
\* str.rstrip(ch)
rstrip(str, ch) ==
    IF str # <<>> /\ str[Len(str)] = ch
    THEN rstrip(SubSeq(str, 1, Len(str) - 1), ch)
    ELSE str

\* str.startswith(prefix)
startswith(str, prefix) ==
    Len(prefix) <= Len(str) /\ SubSeq(str, 1, Len(prefix)) = prefix

RECURSIVE SlashRun(_, _)
\* The number of "/" from position i on.
SlashRun(str, i) ==
    IF i <= Len(str) /\ str[i] = "/" THEN 1 + SlashRun(str, i + 1) ELSE 0

\* The end (exclusive) of the match of location followed by \/* at position
\* i, or 0 when the pattern does not match there.
MatchEnd(str, i, location) ==
    IF i + Len(location) - 1 <= Len(str)
          /\ SubSeq(str, i, i + Len(location) - 1) = location
    THEN i + Len(location) + SlashRun(str, i + Len(location))
    ELSE 0

RECURSIVE regex_sub(_, _, _, _)
\* regex.sub(repl, str) from position i on, for the pattern location + \/*:
\* every match, scanning from the left, is replaced; an empty match is
\* replaced too, and the character after it is copied.
regex_sub(location, repl, str, i) ==
    IF i > Len(str) + 1 THEN <<>>
    ELSE LET e == MatchEnd(str, i, location)
         IN  IF e = 0
             THEN IF i > Len(str) THEN <<>>
                  ELSE <<str[i]>> \o regex_sub(location, repl, str, i + 1)
             ELSE IF e = i
             THEN repl \o (IF i > Len(str) THEN <<>> ELSE <<str[i]>>)
                       \o regex_sub(location, repl, str, i + 1)
             ELSE repl \o regex_sub(location, repl, str, e)

RECURSIVE fnmatch(_, _)
\* find's -path test: "*" stands for any text, a "/" included.
fnmatch(pattern, str) ==
    IF pattern = <<>> THEN str = <<>>
    ELSE IF Head(pattern) = "*"
    THEN \/ fnmatch(Tail(pattern), str)
         \/ str # <<>> /\ fnmatch(pattern, Tail(str))
    ELSE str # <<>> /\ Head(str) = Head(pattern)
            /\ fnmatch(Tail(pattern), Tail(str))

\* The -path patterns of the find command.
Exclusions(location, blocklist) ==
    {regex_sub(location, <<".", "/">>, place, 1) :
        place \in {b \in blocklist : startswith(b, location)}}

RECURSIVE replace_first(_, _, _)
\* str.replace(old, new, 1) for a one-character old.
replace_first(str, old, new) ==
    IF str = <<>> THEN <<>>
    ELSE IF Head(str) = old THEN new \o Tail(str)
    ELSE <<Head(str)>> \o replace_first(Tail(str), old, new)

\* The names a side contributes: the lines find prints, renamed.
ListedNames(location, patterns, listed) ==
    {replace_first(line, ".", location) :
        line \in {l \in listed : \A pat \in patterns : ~ fnmatch(pat, l)}}

\* compare_names(location, blocklist); vm_listed and cont_listed are the
\* files in the directory find runs in on either side.
compare_names(location, blocklist, vm_listed, cont_listed) ==
    LET loc == rstrip(location, "/")
        patterns == Exclusions(loc, blocklist)
    IN  CompareSets(ListedNames(loc, patterns, cont_listed),
                    ListedNames(loc, patterns, vm_listed))

UpTo(S, n) == {T \in SUBSET S : Cardinality(T) <= n}

CompareInit ==
    /\ PureInit
    /\ pc = "compare_names"
    /\ args \in [location : Locations, blocklist : UpTo(BlockEntries, MaxBlocklist),
                 vm_listed : UpTo(RelPaths, MaxListed),
                 cont_listed : UpTo(RelPaths, MaxListed)]

CallCompareNames ==
    /\ pc = "compare_names"
    /\ result' = compare_names(args.location, args.blocklist, args.vm_listed,
                               args.cont_listed)
    /\ pc' = "returned"
    /\ UNCHANGED pure_frame

CompareNext == CallCompareNames

SpecCompare == CompareInit /\ [][CompareNext]_vars

\* ------------------------------------------------------ group_strings
\* Items are names or paths, text without a space: non-empty sequences of
\* the characters of ItemChars, at most MaxItemLen long.  A call gets at most MaxItems of them and a
\* char_count of at most MaxCharCount.
ItemChars == {"a", "b"}

MaxItemLen == 2

MaxItems == 3

MaxCharCount == 4

Items == UNION {[1..k -> ItemChars] : k \in 1..MaxItemLen}

ItemSeqs == UNION {[1..k -> Items] : k \in 0..MaxItems}

RECURSIVE group_strings_losing(_, _, _, _)
\* The loop with the item at hand forgotten whenever a string is yielded.
group_strings_losing(indexable, char_count, i, curr_string) ==
    IF i > Len(indexable)
    THEN IF curr_string # <<>> THEN <<curr_string>> ELSE <<>>
    ELSE IF Len(curr_string) > char_count
    THEN <<curr_string>>
            \o group_strings_losing(indexable, char_count, i + 1, <<>>)
    ELSE group_strings_losing(indexable, char_count, i + 1,
                              curr_string \o indexable[i] \o <<" ">>)

RECURSIVE group_strings_from(_, _, _, _)
\* The loop of group_strings from item i on, with curr_string as it stands;
\* the sequence of the strings yielded.
group_strings_from(indexable, char_count, i, curr_string) ==
    IF i > Len(indexable)
    THEN IF curr_string # <<>> THEN <<curr_string>> ELSE <<>>
    ELSE IF Len(curr_string) > char_count
    THEN <<curr_string>>
            \o group_strings_from(indexable, char_count, i + 1,
                                  indexable[i] \o <<" ">>)
    ELSE group_strings_from(indexable, char_count, i + 1,
                            curr_string \o indexable[i] \o <<" ">>)

group_strings(indexable, char_count) ==
    group_strings_from(indexable, char_count, 1, <<>>)

GroupInit ==
    /\ PureInit
    /\ pc = "group_strings"
    /\ args \in [indexable : ItemSeqs, char_count : 0..MaxCharCount]

CallGroupStrings ==
    /\ pc = "group_strings"
    /\ result' = group_strings(args.indexable, args.char_count)
    /\ pc' = "returned"
    /\ UNCHANGED pure_frame

GroupNext == CallGroupStrings

SpecGroup == GroupInit /\ [][GroupNext]_vars

\* ---------------------------------------------- list_files_in_packages
\* A path is the sequence of its components.  The paths of the source
\* host's packages, in the order the package managers list them: a directory
\* before what it holds.
TreeOrder ==
    <<  <<"etc">>, <<"etc", "motd">>, <<"usr">>, <<"usr", "bin">>,
        <<"usr", "bin", "git">>, <<"usr", "bin", "sh">>  >>

TreeLeaves == {<<"etc", "motd">>, <<"usr", "bin", "git">>, <<"usr", "bin", "sh">>}

\* The packages one call is asked about.
MaxPkgs == 2

IsPrefix(p, q) == Len(p) < Len(q) /\ SubSeq(q, 1, Len(p)) = p

\* The lines the package manager prints for a package with these file
\* leaves: with the directories above them (dirs), or the leaves alone.
PackageListing(leaves, dirs) ==
    SelectSeq(TreeOrder,
              LAMBDA p : \/ p \in leaves
                         \/ dirs /\ \E q \in leaves : IsPrefix(p, q))

\* The lines that are not paths.
NotInstalledLine == <<"is not installed">>

NoFilesLine == <<"contains no files">>

BlankLine == <<>>

DotLine == <<".">>

\* What the host knows of a package: not installed, installed without files,
\* or installed with file leaves.
PkgFacts(backend_dirs) ==
    {[status |-> "not_installed", leaves |-> {}, dirs |-> TRUE],
     [status |-> "no_files", leaves |-> {}, dirs |-> TRUE]}
    \cup {[status |-> "installed", leaves |-> l, dirs |-> d] :
             l \in (SUBSET TreeLeaves) \ {{}}, d \in backend_dirs}

RECURSIVE DpkgOutput(_)
\* stdout of `dpkg-query -L pkg ...`: for an installed package '/.' and its
\* paths, a blank line between packages.
DpkgOutput(pkgs) ==
    IF pkgs = <<>> THEN <<>>
    ELSE LET f == Head(pkgs)
             own == CASE f.status = "not_installed" -> <<NotInstalledLine>>
                      [] f.status = "no_files" -> <<NoFilesLine>>
                      [] OTHER -> <<DotLine>> \o PackageListing(f.leaves, TRUE)
         IN  own \o (IF Tail(pkgs) = <<>> THEN <<>> ELSE <<BlankLine>>)
                 \o DpkgOutput(Tail(pkgs))

RECURSIVE RpmOutput(_)
\* stdout of `rpm -ql a && echo "" && rpm -ql b ...`: the chain stops at the
\* first package rpm does not know.
RpmOutput(pkgs) ==
    IF pkgs = <<>> THEN <<>>
    ELSE LET f == Head(pkgs)
         IN  IF f.status = "not_installed" THEN <<NotInstalledLine>>
             ELSE (IF f.status = "no_files" THEN <<NoFilesLine>>
                   ELSE PackageListing(f.leaves, f.dirs))
                  \o (IF Tail(pkgs) = <<>> THEN <<>>
                      ELSE <<BlankLine>> \o RpmOutput(Tail(pkgs)))

\* files[i] = temp, with Python's index: -1 is the last element.
SetItem(files, i, temp) ==
    [files EXCEPT ![IF i < 0 THEN Len(files) + 1 + i ELSE i + 1] = temp]

RECURSIVE ubuntu_read_lines(_, _, _, _)
\* The loop over stdout of UbuntuAnalyzer.list_files_in_packages.
ubuntu_read_lines(lines, files, temp, i) ==
    IF lines = <<>> THEN SetItem(files, i, temp)
    ELSE LET line == Head(lines)
         IN  IF line \in {NotInstalledLine, NoFilesLine, BlankLine}
             THEN ubuntu_read_lines(Tail(lines), files, temp, i)
             ELSE IF line = DotLine
             THEN ubuntu_read_lines(Tail(lines), SetItem(files, i, temp), <<>>, i + 1)
             ELSE ubuntu_read_lines(Tail(lines), files, temp \o <<line>>, i)

\* list.remove(x): the first occurrence goes; the list is as it was when x is
\* not in it (the ValueError is passed over).
RemoveFirst(list, x) ==
    IF \E k \in 1..Len(list) : list[k] = x
    THEN LET k == CHOOSE j \in 1..Len(list) :
                     list[j] = x /\ \A h \in 1..(j - 1) : list[h] # x
         IN  SubSeq(list, 1, k - 1) \o SubSeq(list, k + 1, Len(list))
    ELSE list

RECURSIVE remove_directories(_, _)
\* `for file in file_list: ... file_list.remove(parent)`: the loop goes on
\* at the next index of the list as the removal left it.
remove_directories(file_list, idx) ==
    IF idx > Len(file_list) THEN file_list
    ELSE LET file == file_list[idx]
         IN  IF Len(file) >= 2
             THEN remove_directories(
                      RemoveFirst(file_list, SubSeq(file, 1, Len(file) - 1)),
                      idx + 1)
             ELSE remove_directories(file_list, idx + 1)

ubuntu_list_files_in_packages(pkgs) ==
    LET files == ubuntu_read_lines(DpkgOutput(pkgs), [k \in 1..Len(pkgs) |-> <<>>],
                                   <<>>, 0 - 1)
    IN  [k \in 1..Len(files) |-> remove_directories(files[k], 1)]

RECURSIVE centos_read_lines(_, _, _, _)
\* The loop over stdout of CentosAnalyzer.list_files_in_packages, with the
\* two statements after it.
centos_read_lines(lines, files, temp, i) ==
    IF lines = <<>> THEN SetItem(files, i, temp)
    ELSE LET line == Head(lines)
         IN  IF line \in {NotInstalledLine, NoFilesLine}
             THEN centos_read_lines(Tail(lines), files, temp, i)
             ELSE IF line = BlankLine
             THEN centos_read_lines(Tail(lines), SetItem(files, i, temp), <<>>, i + 1)
             ELSE centos_read_lines(Tail(lines), files, temp \o <<line>>, i)

centos_list_files_in_packages(pkgs) ==
    centos_read_lines(RpmOutput(pkgs), [k \in 1..Len(pkgs) |-> <<>>], <<>>, 0)

list_files_in_packages(os, pkgs) ==
    IF os = "ubuntu" THEN ubuntu_list_files_in_packages(pkgs)
    ELSE centos_list_files_in_packages(pkgs)

ListFilesInit ==
    /\ PureInit
    /\ pc = "list_files_in_packages"
    /\ \E os \in {"centos", "ubuntu"}, n \in 1..MaxPkgs :
         \E pkgs \in [1..n -> PkgFacts(IF os = "ubuntu" THEN {TRUE} ELSE BOOLEAN)] :
           args = [os |-> os, pkgs |-> pkgs]

CallListFiles ==
    /\ pc = "list_files_in_packages"
    /\ result' = list_files_in_packages(args.os, args.pkgs)
    /\ pc' = "returned"
    /\ UNCHANGED pure_frame

ListFilesNext == CallListFiles

SpecListFiles == ListFilesInit /\ [][ListFilesNext]_vars

\* ----------------------------------------------------------- dockerize
\* A token of an install directive: the bare name, or the name pinned to
\* what the map records for it (name-ver for yum, name=ver for apt).
BareToken(name) == [name |-> name, pinned |-> FALSE, ver |-> Unconstrained]

PinnedToken(name, ver) == [name |-> name, pinned |-> TRUE, ver |-> ver]

\* An entry `name: old->new` of the comment, or `name: old->?`.
Note(name, old_ver, new_ver) ==
    [name |-> name, old |-> old_ver, question_mark |-> FALSE, new |-> new_ver]

UnknownNote(name, old_ver) ==
    [name |-> name, old |-> old_ver, question_mark |-> TRUE, new |-> Unconstrained]

FromLine == [kind |-> "FROM", tokens |-> {}, notes |-> {}]

EnvLine == [kind |-> "ENV", tokens |-> {}, notes |-> {}]

RunLine(tokens) == [kind |-> "RUN", tokens |-> tokens, notes |-> {}]

CommentLine(notes) == [kind |-> "#", tokens |-> {}, notes |-> notes]

\* The tokens of unversion_packages with every name pinned to what the map
\* holds, the sentinel included.
UnversionTokensPinned(unv) == {PinnedToken(n, unv[n]) : n \in DOMAIN unv}

\* The tokens and the comment written for unversion_packages, the same in
\* CentosAnalyzer.dockerize and UbuntuAnalyzer._assemble_packages.
UnversionTokens(unv) ==
    {IF unv[n] # Unconstrained THEN PinnedToken(n, unv[n]) ELSE BareToken(n) :
        n \in DOMAIN unv}

UnversionNotes(allp, unv) ==
    {IF unv[n] # Unconstrained THEN Note(n, allp[n], unv[n])
                                ELSE UnknownNote(n, allp[n]) :
        n \in DOMAIN unv}

\* CentosAnalyzer.dockerize: the lines of the Dockerfile.
centos_dockerize(allp, inst, unv) ==
    <<FromLine>>
    \o (IF DOMAIN inst # {}
        THEN <<RunLine({PinnedToken(n, inst[n]) :
                            n \in {m \in DOMAIN inst : inst[m] # Unconstrained}})>>
        ELSE <<>>)
    \o (IF DOMAIN unv # {}
        THEN <<CommentLine(UnversionNotes(allp, unv)), RunLine(UnversionTokens(unv))>>
        ELSE <<>>)

\* UbuntuAnalyzer.dockerize with _assemble_packages.
ubuntu_dockerize(allp, inst, unv) ==
    <<FromLine, EnvLine, RunLine({PinnedToken(n, inst[n]) : n \in DOMAIN inst})>>
    \o (IF DOMAIN unv # {}
        THEN <<CommentLine(UnversionNotes(allp, unv)), RunLine(UnversionTokens(unv))>>
        ELSE <<>>)

\* dockerize(folder): the assertion of SystemAnalyzer.dockerize, then the
\* backend's Dockerfile.
dockerize(os, allp, inst, unv) ==
    IF DOMAIN inst = {} THEN [ret |-> "AssertionError", lines |-> <<>>]
    ELSE IF ~ (DOMAIN unv \subseteq DOMAIN allp)
    THEN [ret |-> "KeyError", lines |-> <<>>]
    ELSE [ret |-> "None",
          lines |-> IF os = "ubuntu" THEN ubuntu_dockerize(allp, inst, unv)
                    ELSE centos_dockerize(allp, inst, unv)]

\* dockerize called on the inventory as it stands.  The Dockerfile is looked
\* at as it was written: the behaviour ends with the call.
Dockerize ==
    /\ pc = "free"
    /\ result' = dockerize(backend, all_packages, install_packages,
                           unversion_packages)
    /\ pc' = "dockerized"
    /\ UNCHANGED <<backend, host_pkgs, all_packages, install_packages,
                   unversion_packages, last, calls, engine_vars, differ_vars,
                   args>>

ManifestNext == Next \/ Dockerize

SpecManifest == Init /\ [][ManifestNext]_vars

\* ------------------------------------------------ parsing package lines
\* A line is text: a sequence of pieces.  The pieces the parsers look for
\* (" ", ".", "-", ":", "/", "now") stand for themselves; every other piece
\* is a run of characters with none of these in it.
Join(parts) == Concat(parts)

\* The positions at which sep occurs in str.
Occurrences(str, sep) ==
    {k \in 1..Len(str) :
        k + Len(sep) - 1 <= Len(str) /\ SubSeq(str, k, k + Len(sep) - 1) = sep}

Min(S) == CHOOSE x \in S : \A y \in S : x <= y

Max(S) == CHOOSE x \in S : \A y \in S : x >= y

RECURSIVE split(_, _)
\* str.split(sep)
split(str, sep) ==
    IF Occurrences(str, sep) = {} THEN <<str>>
    ELSE LET k == Min(Occurrences(str, sep))
         IN  <<SubSeq(str, 1, k - 1)>>
                 \o split(SubSeq(str, k + Len(sep), Len(str)), sep)

\* str.split(sep, maxsplit=n)[0] for n >= 1, which is str.split(sep)[0].
split_first(str, sep) == split(str, sep)[1]

\* str.split(sep)[-1]
split_last(str, sep) == split(str, sep)[Len(split(str, sep))]

\* str.rsplit(sep, maxsplit=1)[0]
rsplit_first(str, sep) ==
    IF Occurrences(str, sep) = {} THEN str
    ELSE SubSeq(str, 1, Max(Occurrences(str, sep)) - 1)

RECURSIVE lstrip(_, _)
lstrip(str, ch) ==
    IF str # <<>> /\ Head(str) = ch THEN lstrip(Tail(str), ch) ELSE str

\* str.strip()
strip(str) == rstrip(lstrip(str, " "), " ")

\* str.split(): the fields between runs of blanks.
split_blanks(str) == SelectSeq(split(str, <<" ">>), LAMBDA f : f # <<>>)

\* The first field with what was cut off after the first '.' instead of
\* the last.
centos_name_cut_early(field) == split_first(field, <<".">>)

\* name.rsplit(sep='.', maxsplit=1)[0]
centos_name_of(field) == rsplit_first(field, <<".">>)

\* ver.split(sep='-', maxsplit=2)[0], then ver.split(':')[-1]
centos_ver_of(field) == split_last(split_first(field, <<"-">>), <<":">>)

\* CentosAnalyzer.parse_pkg_line; clean_line[0] and clean_line[1] are the
\* same with and without maxsplit=2.
centos_parse_pkg_line(line) ==
    LET clean_line == split_blanks(strip(line))
    IN  IF Len(clean_line) < 2 THEN [ret |-> "IndexError", name |-> <<>>, ver |-> <<>>]
        ELSE [ret |-> "None", name |-> centos_name_of(clean_line[1]),
              ver |-> centos_ver_of(clean_line[2])]

\* UbuntuAnalyzer.parse_pkg_line
ubuntu_parse_pkg_line(line) ==
    LET clean_line == strip(line)
        after_now == split(clean_line, <<"now", " ">>)
    IN  IF Len(after_now) < 2 THEN [ret |-> "IndexError", name |-> <<>>, ver |-> <<>>]
        ELSE [ret |-> "None", name |-> split_first(clean_line, <<"/">>),
              ver |-> split_first(after_now[2], <<" ">>)]

\* The parts of the lines `yum list installed` prints: name.arch, blanks,
\* [epoch:]version-release, and the repository column or nothing.
YumNames ==
    {<<"curl">>, <<"java", "-", "1", ".", "8", ".", "0", "-", "openjdk">>,
     <<"python", "-", "libs">>, <<"gtk2">>, <<"perl", "-", "Pod", ".", "Man">>}

YumArchs == {<<"x86_64">>, <<"noarch">>}

YumEpochs == {<<>>, <<"1", ":">>}

YumVersions ==
    {<<"7", ".", "29", ".", "0">>, <<"1", ".", "8", ".", "0", ".", "212", ".", "b04">>,
     <<"20190131">>}

YumReleases == {<<"42", ".", "el7">>, <<"0", ".", "el7_6">>}

YumRepos == {<<>>, <<" ", "@base">>}

MaxBlanks == 3

Blanks(n) == [k \in 1..n |-> " "]

YumLine(name, arch, epoch, version, release, blanks, repo) ==
    Join(<<name, <<".">>, arch, Blanks(blanks), epoch, version, <<"-">>,
           release, repo>>)

ParseLineInit ==
    /\ PureInit
    /\ pc = "parse_pkg_line"
    /\ \E name \in YumNames, arch \in YumArchs, epoch \in YumEpochs,
          version \in YumVersions, release \in YumReleases,
          blanks \in 1..MaxBlanks, repo \in YumRepos :
         args = [name |-> name, version |-> version, epoch |-> epoch,
                 line |-> YumLine(name, arch, epoch, version, release, blanks, repo)]

CallParsePkgLine ==
    /\ pc = "parse_pkg_line"
    /\ result' = centos_parse_pkg_line(args.line)
    /\ pc' = "returned"
    /\ UNCHANGED pure_frame

ParseLineNext == CallParsePkgLine

SpecParseLine == ParseLineInit /\ [][ParseLineNext]_vars

\* ------------------------------------------------------ parse_all_pkgs
\* re.match(r'Installed Packages', line) and the like: the line begins
\* with the words.
IsBanner(os, line) ==
    IF os = "centos" THEN startswith(line, <<"Installed", " ", "Packages">>)
    ELSE \/ line = <<>>
         \/ startswith(line, <<"WARNING:">>)
         \/ startswith(line, <<"Listing">>)

parse_pkg_line(os, line) ==
    IF os = "centos" THEN centos_parse_pkg_line(line)
    ELSE ubuntu_parse_pkg_line(line)

RECURSIVE parse_all_pkgs_from(_, _, _)
\* The loop of parse_all_pkgs over the lines left, with the dictionary as
\* it stands.
parse_all_pkgs_from(os, lines, packages) ==
    IF lines = <<>> THEN [ret |-> "None", packages |-> packages]
    ELSE IF IsBanner(os, Head(lines))
    THEN parse_all_pkgs_from(os, Tail(lines), packages)
    ELSE LET r == parse_pkg_line(os, Head(lines))
         IN  IF r.ret # "None" THEN [ret |-> r.ret, packages |-> packages]
             ELSE parse_all_pkgs_from(os, Tail(lines), With(packages, r.name, r.ver))

parse_all_pkgs(os, lines) == parse_all_pkgs_from(os, lines, EmptyMap)

\* Lines the package managers and the shell print.  Banners and warnings:
BannerLines(os) ==
    IF os = "centos" THEN {<<"Installed", " ", "Packages">>}
    ELSE {<<>>,
          <<"WARNING:", " ", "apt", " ", "does", " ", "not", " ", "have", " ",
            "a", " ", "stable", " ", "CLI", " ", "interface", ".">>,
          <<"Listing", ".", ".", ".">>}

\* Package lines of the backend's form:
PackageLines(os) ==
    IF os = "centos"
    THEN {<<"curl", ".", "x86_64", " ", " ", "7", ".", "29", ".", "0", "-", "42",
            ".", "el7", " ", "@base">>,
          <<"java", "-", "1", ".", "8", ".", "0", "-", "openjdk", ".", "x86_64",
            " ", "1", ":", "1", ".", "8", ".", "0", ".", "212", ".", "b04", "-",
            "0", ".", "el7_6", " ", "@updates">>}
    ELSE {<<"yelp", "/", "bionic", ",", "now", " ", "3", ".", "26", ".", "0", "-",
            "1ubuntu2", " ", "amd64", " ", "[installed,automatic]">>,
          <<"curl", "/", "bionic", ",", "now", " ", "7", ".", "58", ".", "0", " ",
            "amd64", " ", "[installed]">>}

\* Lines that are neither: an empty line and a plugin notice of yum, an
\* error of the shell, notices of apt.
OtherLines(os) ==
    IF os = "centos"
    THEN {<<>>,
          <<"Loaded", " ", "plugins", ":", " ", "fastestmirror">>,
          <<"Killed">>}
    ELSE {<<"Killed">>,
          <<"N:", " ", "There", " ", "is", " ", "1", " ", "additional", " ",
            "version", ".">>,
          <<"E:", " ", "The", " ", "package", " ", "cache", " ", "is", " ",
            "now", " ", "out", " ", "of", " ", "date", ".">>}

OutputLines(os) == BannerLines(os) \cup PackageLines(os) \cup OtherLines(os)

MaxLines == 2

ParseAllInit ==
    /\ PureInit
    /\ pc = "parse_all_pkgs"
    /\ \E os \in {"centos", "ubuntu"}, n \in 1..MaxLines :
         \E lines \in [1..n -> OutputLines(os)] :
            args = [os |-> os, lines |-> lines]

CallParseAllPkgs ==
    /\ pc = "parse_all_pkgs"
    /\ result' = parse_all_pkgs(args.os, args.lines)
    /\ pc' = "returned"
    /\ UNCHANGED pure_frame

ParseAllNext == CallParseAllPkgs

SpecParseAll == ParseAllInit /\ [][ParseAllNext]_vars

\* ------------------------------------------- filter_packages, observed
\* filter_packages called in any order with get_packages, with what the
\* call was given and what it found kept for inspection: the dependency
\* function, the base image's listing, and the two maps as they were.
FilterCall ==
    /\ pc = "free"
    /\ \E strict \in BOOLEAN, deps \in DepFuncs, base \in Listings :
         \E r \in FilterOutcomes(all_packages, install_packages,
                                 unversion_packages, strict, deps, base) :
            /\ install_packages' = r.inst
            /\ unversion_packages' = r.unv
            /\ last' = [NoCall EXCEPT !.op = "filter_packages",
                                      !.strict = strict,
                                      !.ret = r.ret]
            /\ args' = [strict |-> strict, deps |-> deps, base |-> base,
                        install_packages |-> install_packages,
                        unversion_packages |-> unversion_packages]
    /\ UNCHANGED <<backend, host_pkgs, all_packages, engine_vars, pc, calls,
                   differ_vars, result>>

FilterNext == GetPackages \/ FilterCall

SpecFilter == Init /\ [][FilterNext]_vars

\* ------------------------------------- the fallback of the two backends
\* One inventory, as get_packages and a non-strict filter_packages leave it,
\* handed to verify_packages of the set-difference backend and, with the
\* missing set that call evaluates, to _run_fallback of the error-marker
\* backend.
FallbackInventories ==
    {v \in [inst : HostListings \ {EmptyMap}, unv : Listings] :
        (DOMAIN v.inst) \cap (DOMAIN v.unv) = {}}

\* `listed` is what the built image lists, `reprobe` what the re-probe of
\* the set-difference backend lists; `unloc`, `novers` and `other` are what
\* apt answers to the repeated install attempt of _run_fallback, `listing`
\* what LIST_INSTALLED answers after it.
FallbackInputs ==
    UNION {
      LET missing == SystemMissing(v.inst, l)
          names   == (DOMAIN v.inst) \cup (DOMAIN v.unv)
      IN  {[inst |-> v.inst, unv |-> v.unv, mode |-> m, listed |-> l,
            reprobe |-> rp, unloc |-> ul, novers |-> nv, other |-> o,
            listing |-> ls] :
              rp \in (IF m = "unversion"
                      THEN ListingsOver(missing) ELSE {EmptyMap}),
              ul \in SUBSET names,
              nv \in SUBSET names,
              o  \in BOOLEAN,
              ls \in ListingsOver(names)}
      : v \in FallbackInventories, m \in Modes, l \in SUBSET Names}

FallbackInit ==
    /\ PureInit
    /\ pc = "verify_packages"
    /\ args \in {a \in FallbackInputs :
                    /\ SystemMissing(a.inst, a.listed) # {}
                    /\ a.unloc \cap a.novers = {}}

\* Both fallbacks on the same maps and the same missing set.
CallBothFallbacks ==
    /\ pc = "verify_packages"
    /\ LET missing == SystemMissing(args.inst, args.listed)
       IN  result' =
             [missing |-> missing,
              system  |-> SystemVerify(args.inst, args.unv, args.mode,
                                       args.listed, args.reprobe),
              ubuntu  |-> UbuntuRunFallback(args.inst, args.unv,
                                            SeqOf(missing), args.mode,
                                            args.unloc, args.novers,
                                            args.other, args.listing)]
    /\ pc' = "returned"
    /\ UNCHANGED pure_frame

FallbackNext == CallBothFallbacks

SpecFallback == FallbackInit /\ [][FallbackNext]_vars

\* ================================================================ claims
Keys(m) == DOMAIN m

IsVerify(rec) == rec.op = "verify_packages"

Returned(rec) == rec.ret \in {"True", "False"}

\* C1: in every state reachable by get_packages, filter_packages (strict or
\* not) and verify_packages (any mode, either backend), every key of
\* install_packages and every key of unversion_packages is a key of
\* all_packages.
C1_KeysWithinAll ==
    /\ Keys(install_packages) \subseteq Keys(all_packages)
    /\ Keys(unversion_packages) \subseteq Keys(all_packages)

\* A fallback has written unversion_packages on a host that lacks a name.
C1_Witness ==
    /\ IsVerify(last)
    /\ last.missing # {}
    /\ Keys(unversion_packages) # {}
    /\ Keys(install_packages) # {}
    /\ Keys(all_packages) # Names

\* C2: a name that an operation removes from install_packages is not a key
\* of unversion_packages afterwards; in particular, after a Delete-mode call
\* with missing set M no name of M is in install_packages or in
\* unversion_packages, also when an earlier Unversion call had put it in
\* unversion_packages.  Stated for the Delete calls that return.
C2_DeleteClearsBothMaps ==
    (IsVerify(last) /\ last.mode = "delete" /\ last.missing # {}
        /\ Returned(last))
    => last.missing \cap (Keys(install_packages) \cup Keys(unversion_packages)) = {}

C4_DeleteShrinksByMissing ==
    [][(IsVerify(last') /\ last'.mode = "delete" /\ last'.missing # {})
       => /\ last'.missing \cap Keys(install_packages') = {}
          /\ Cardinality(Keys(install_packages')) + Cardinality(last'.missing)
                = Cardinality(Keys(install_packages))]_vars

\* C5: a verify_packages call that finds a non-empty missing set returns a
\* boolean; it never raises.
C5_PartialNeverRaises ==
    (IsVerify(last) /\ last.missing # {}) => Returned(last)

\* C6: after an Unversion-mode call that evaluates a missing set M, a name
\* of M found in the probe of the image rebuilt with the unconstrained
\* directive holds that probe's version in install_packages and in
\* unversion_packages, and a name of M not found there holds False in both.
C6_UnversionRecordsRebuiltProbe ==
    (IsVerify(last) /\ last.mode = "unversion" /\ last.missing # {})
    => \A n \in last.missing :
          LET v == IF n \in Keys(last.rebuilt) THEN last.rebuilt[n]
                   ELSE Unconstrained
          IN  /\ n \in Keys(install_packages)
              /\ n \in Keys(unversion_packages)
              /\ install_packages[n] = v
              /\ unversion_packages[n] = v

\* C7: every verify_packages call whose first evaluation finds a non-empty
\* missing set returns False, in every mode and for both backends.
C7_PartialReturnsFalse ==
    (IsVerify(last) /\ last.missing # {}) => last.ret = "False"

\* C8: a Dry-mode call that finds a non-empty missing set returns False and
\* leaves all_packages, install_packages and unversion_packages unchanged;
\* a Dry call made right after it with the same probe responses computes
\* the same missing set and the same verdict.
C8_DryIsReadOnly ==
    [][(IsVerify(last') /\ last'.mode = "dry" /\ last'.missing # {})
       => /\ last'.ret = "False"
          /\ all_packages' = all_packages
          /\ install_packages' = install_packages
          /\ unversion_packages' = unversion_packages
          /\ last'.again.missing = last'.missing
          /\ last'.again.ret = last'.ret]_vars

\* A Dry call has found packages missing, in an inventory that earlier
\* fallbacks have changed.
C8_Witness ==
    /\ IsVerify(last)
    /\ last.mode = "dry"
    /\ last.missing # {}
    /\ last.ret = "False"
    /\ last.again.missing = last.missing
    /\ Keys(unversion_packages) # {}

\* C9: the set-difference backend returns True exactly when every key of
\* install_packages is the name of a package of the parsed listing, the
\* missing set is exactly the keys that are no such name, and on Complete
\* install_packages and unversion_packages are unchanged.
C9_CompleteIffAllListed ==
    [][(backend = "centos" /\ IsVerify(last') /\ Returned(last'))
       => /\ (last'.ret = "True") <=> (Keys(install_packages) \subseteq last'.listed)
          /\ last'.missing = Keys(install_packages) \ last'.listed
          /\ (last'.ret = "True"
                => /\ install_packages' = install_packages
                   /\ unversion_packages' = unversion_packages)]_vars

\* C10: the driver calls verify_packages at most three times, in the order
\* Dry, Unversion, Delete; a mode is called only if every earlier call
\* returned False, no call follows one that returned True, each call starts
\* from the inventory the call before left, and the key set of
\* install_packages never grows.
C10_DriverLoop ==
    /\ Len(calls) <= Len(DriverModes)
    /\ \A i \in DOMAIN calls :
         /\ calls[i].mode = DriverModes[i]
         /\ i < Len(calls) => calls[i].ret = "False"
         /\ i < Len(calls) =>
              /\ calls[i + 1].pre_install = calls[i].post_install
              /\ calls[i + 1].pre_unversion = calls[i].post_unversion
         /\ Keys(calls[i].post_install) \subseteq Keys(calls[i].pre_install)
    /\ (pc = "verify" /\ calls # <<>>) => calls[Len(calls)].ret = "False"
    /\ calls # <<>> =>
         /\ install_packages = calls[Len(calls)].post_install
         /\ unversion_packages = calls[Len(calls)].post_unversion

\* The loop has run all three modes, the fallbacks have changed the
\* inventory, and the driver went on to write the manifest.
C10_Witness ==
    /\ pc = "done"
    /\ Len(calls) = 3
    /\ calls[2].post_unversion # calls[2].pre_unversion
    /\ calls[3].post_install # calls[3].pre_install

\* C11: once get_packages has filled all_packages, no later call of the
\* session (filter_packages, verify_packages, dockerize, analyze_files with
\* examine_files_and_packages, get_config_differences) changes its keys or
\* versions, and dockerize and the file and config analysis change neither
\* install_packages nor unversion_packages.
C11_AllPackagesImmutable ==
    [][/\ pc # "get_packages" => all_packages' = all_packages
       /\ pc \in {"dockerize", "done"}
            => /\ install_packages' = install_packages
               /\ unversion_packages' = unversion_packages]_vars

\* The config analysis has run after a verification loop that changed the
\* inventory and after a file analysis.
C11_Witness ==
    /\ pc = "done"
    /\ last.op = "get_config_differences"
    /\ packages_files # EmptyMap
    /\ container_hashes # EmptyMap
    /\ install_packages # all_packages
    /\ all_packages = host_pkgs

\* The necessary nodes in the words of the design: a node nothing of the
\* node set depends on, or a node of a strongly connected component of more
\* than one node.
Necessary(nodes, deps) ==
    {n \in nodes :
        \/ ~ \E m \in nodes : n \in deps[m]
        \/ \E m \in nodes \ {n} :
              /\ m \in Reachable(n, nodes, deps)
              /\ n \in Reachable(m, nodes, deps)}

\* C12: analyze_dependencies returns the node set minus the necessary set,
\* whatever the order in which nodes and components are visited; the graph of
\* test_simple_graph gives {e}, that of test_two_dependent_graph the
\* dependencies of x and y without q and y.
C12_RemovableIsComplementOfNecessary ==
    pc = "returned"
    => /\ result.removable = args.nodes \ Necessary(args.nodes, args.deps)
       /\ result.reversed = result.removable
       /\ result.by_sets = result.removable
       /\ args = SimpleGraph => result.removable = {"e"}
       /\ args = TwoDependentGraph
            => result.removable = {"a", "b", "z", "p", "t", "s", "i", "e", "u"}

\* A call on a graph with a cycle, a node outside every cycle that is
\* depended on, and a dependency that is no node.
C12_Witness ==
    /\ pc = "returned"
    /\ args.nodes = {"a", "b", "c"}
    /\ args.deps["a"] = {"b"}
    /\ args.deps["b"] = {"a", "c"}
    /\ result.removable = {"c"}

\* C13: every package analyze_dependencies returns as removable is reachable
\* along dependency edges from a package of the node set that is not
\* returned.
C13_RemovableImpliedByRetained ==
    pc = "returned"
    => \A n \in result.removable :
          \E m \in args.nodes \ result.removable :
              n \in Reachable(m, args.nodes, args.deps)

\* Helpers of the classification claims: the buckets a file is in, and the
\* packages that own it.
BucketsOf(f) ==
    {b \in {"added", "deleted", "modified", "ver_mismatch", "unassociated"} :
        \/ b = "added" /\ f \in result.added_files
        \/ b = "deleted" /\ f \in result.deleted_files
        \/ b = "modified" /\ f \in result.modified_files
        \/ b = "ver_mismatch" /\ f \in result.ver_mismatch_files
        \/ b = "unassociated" /\ f \in result.different_files_not_from_pkgs}

OwnersOf(f) == {pkg \in DOMAIN all_packages : f \in packages_files[pkg]}

MatchingOwners(f) ==
    {pkg \in OwnersOf(f) : VersionMatches(pkg, all_packages, args.cont_pkgs)}

\* C14 (as amended): for each package whose version is the same on both
\* sides, an owned file that is only on the source VM is put in 'added', an
\* owned file that is only on the container is put in 'deleted', an owned
\* shared file whose checksums differ is put in 'modified', and an owned shared
\* file with identical checksums is put in no bucket; a file all of whose
\* owners match is in no other bucket than the one its set gives.
C14_MatchingClassifiedByMembership ==
    pc = "returned"
    => \A f \in Files :
          /\ MatchingOwners(f) # {}
               => /\ f \in args.just_vm => "added" \in BucketsOf(f)
                  /\ f \in args.just_cont => "deleted" \in BucketsOf(f)
                  /\ f \in args.differing => "modified" \in BucketsOf(f)
                  /\ f \in args.shared \ args.differing => BucketsOf(f) = {}
          /\ (MatchingOwners(f) # {} /\ MatchingOwners(f) = OwnersOf(f))
               => BucketsOf(f) =
                     {b \in {"added", "deleted", "modified"} :
                         \/ b = "added" /\ f \in args.just_vm
                         \/ b = "deleted" /\ f \in args.just_cont
                         \/ b = "modified" /\ f \in args.differing}

\* C14 as stated: for a version-matching package, an owned file only on the
\* container is 'added' and an owned file only on the VM is 'deleted'.
C14_AsStated ==
    pc = "returned"
    => \A f \in Files :
          MatchingOwners(f) # {}
            => /\ f \in args.just_cont => "added" \in BucketsOf(f)
               /\ f \in args.just_vm => "deleted" \in BucketsOf(f)
               /\ f \in args.differing => "modified" \in BucketsOf(f)
               /\ f \in args.shared \ args.differing => BucketsOf(f) = {}

\* A file only on the container, owned by a version-matching package alone,
\* has been classified and is in 'deleted' only.
C14_Witness ==
    /\ pc = "returned"
    /\ \E f \in args.just_cont :
         /\ MatchingOwners(f) # {}
         /\ MatchingOwners(f) = OwnersOf(f)
         /\ BucketsOf(f) = {"deleted"}

\* C15 (as amended): for each package whose version differs between the
\* sides or that the container does not have, an owned file that is only on
\* the source VM is 'added' if the package's integrity check flags it and
\* 'version-mismatch' otherwise, an owned shared file whose checksums differ is
\* 'modified' if flagged and 'version-mismatch' otherwise; an owned file that
\* is only on the container is 'deleted' whatever the version-match state and
\* the check's answer.
C15_DifferingClassifiedByProbe ==
    pc = "returned"
    => \A f \in Files :
          /\ \A pkg \in OwnersOf(f) \ MatchingOwners(f) :
                /\ f \in args.just_vm
                     => IF f \in args.changed[pkg]
                        THEN "added" \in BucketsOf(f)
                        ELSE "ver_mismatch" \in BucketsOf(f)
                /\ f \in args.differing
                     => IF f \in args.changed[pkg]
                        THEN "modified" \in BucketsOf(f)
                        ELSE "ver_mismatch" \in BucketsOf(f)
          /\ (OwnersOf(f) # {} /\ f \in args.just_cont)
               => BucketsOf(f) = {"deleted"}

\* C15 as stated: the split by the integrity check applies to the owned
\* files only on the container, and the owned files only on the VM are always
\* 'deleted'.
C15_AsStated ==
    pc = "returned"
    => \A f \in Files :
          /\ \A pkg \in OwnersOf(f) \ MatchingOwners(f) :
                /\ f \in args.just_cont
                     => IF f \in args.changed[pkg]
                        THEN "added" \in BucketsOf(f)
                        ELSE "ver_mismatch" \in BucketsOf(f)
                /\ f \in args.differing
                     => IF f \in args.changed[pkg]
                        THEN "modified" \in BucketsOf(f)
                        ELSE "ver_mismatch" \in BucketsOf(f)
          /\ (OwnersOf(f) # {} /\ f \in args.just_vm)
               => "deleted" \in BucketsOf(f)

\* A file only on the VM whose one owner differs in version and does not
\* flag it has been classified as 'version-mismatch'.
C15_Witness ==
    /\ pc = "returned"
    /\ \E f \in args.just_vm :
         /\ MatchingOwners(f) = {}
         /\ \E pkg \in OwnersOf(f) :
              /\ pkg \in DOMAIN args.cont_pkgs
              /\ f \notin args.changed[pkg]
         /\ BucketsOf(f) = {"ver_mismatch"}

\* C16: the five buckets are pairwise disjoint, their union is the union of
\* the three sets handed to examine_files_and_packages, and the unassociated
\* bucket holds exactly the handed files that no package owns.
C16_BucketsPartitionInputs ==
    pc = "returned"
    => LET handed == args.just_cont \cup modified_of(args.shared, args.differing)
                        \cup args.just_vm
       IN  /\ \A f \in Files : Cardinality(BucketsOf(f)) <= 1
           /\ {f \in Files : BucketsOf(f) # {}} = handed
           /\ result.different_files_not_from_pkgs =
                 {f \in handed : OwnersOf(f) = {}}

\* C17: every container a call started has been removed when the call has
\* returned or raised: between the calls no container of the analyzer is left.
C17_ContainersRemoved == containers = 0

\* The image is one built from a manifest whose install directives cover the
\* current install_packages.
BuiltReplica ==
    /\ image.kind = "manifest"
    /\ DOMAIN install_packages
         \subseteq (DOMAIN image.install) \cup (DOMAIN image.unversion)

\* C18: every step of the file or config analysis that is taken after the
\* verification loop starts from a state whose image is the built replica.
C18_DifferRunsOnBuiltReplica ==
    [][pc = "done" => BuiltReplica]_vars

\* C19: after analyze_files or get_config_differences has returned, the two
\* checksum maps hold an entry for a path only if the call probed the path
\* on that side, and so do the config sets.
C19_ChecksumsRecomputedPerCall ==
    (last.op \in {"analyze_files", "get_config_differences"} /\ last.ret = "None")
    => /\ DOMAIN vm_hashes \subseteq result.probed_vm
       /\ DOMAIN container_hashes \subseteq result.probed_container
       /\ vm_configs \subseteq result.probed_vm
       /\ container_configs \subseteq result.probed_container

\* A name is blocklisted by an entry: the entry itself for a plain entry, any
\* path under the folder for an entry that ends in '/*'.
Blocklisted(name, entry) ==
    IF Len(entry) >= 2 /\ SubSeq(entry, Len(entry) - 1, Len(entry)) = <<"/", "*">>
    THEN /\ startswith(name, SubSeq(entry, 1, Len(entry) - 1))
         /\ Len(name) >= Len(entry)
    ELSE name = entry

\* C20: no name in any of the three sets compare_names returns is
\* blocklisted by an entry of the blocklist.
C20_BlocklistedNeverReturned ==
    pc = "returned"
    => \A name \in result.just_cont \cup result.shared \cup result.just_vm :
          \A entry \in args.blocklist : ~ Blocklisted(name, entry)

\* Helpers of the batching claims: the items of a yielded string, each one
\* ended by a space, and the items of a sequence of yielded strings.
RECURSIVE ItemsOf(_, _)
ItemsOf(str, item) ==
    IF str = <<>> THEN (IF item = <<>> THEN <<>> ELSE <<item>>)
    ELSE IF Head(str) = " " THEN <<item>> \o ItemsOf(Tail(str), <<>>)
    ELSE ItemsOf(Tail(str), item \o <<Head(str)>>)

RECURSIVE ItemsOfAll(_)
ItemsOfAll(strs) ==
    IF strs = <<>> THEN <<>>
    ELSE ItemsOf(Head(strs), <<>>) \o ItemsOfAll(Tail(strs))

\* C21: no string group_strings yields is longer than char_count characters,
\* unless it holds a single item that is itself longer than char_count.
C21_BatchWithinCeiling ==
    pc = "returned"
    => \A k \in 1..Len(result) :
          \/ Len(result[k]) <= args.char_count
          \/ /\ Len(ItemsOf(result[k], <<>>)) = 1
             /\ Len(ItemsOf(result[k], <<>>)[1]) > args.char_count

\* C22: the items of the strings group_strings yields, taken in order, are
\* the input sequence, every yielded string ends an item (none is split over
\* two strings), and no yielded string is empty.
C22_BatchesAreTheInput ==
    pc = "returned"
    => /\ ItemsOfAll(result) = args.indexable
       /\ \A k \in 1..Len(result) :
             /\ result[k] # <<>>
             /\ result[k][Len(result[k])] = " "

\* A call has yielded more than one string, one of them with two items.
C22_Witness ==
    /\ pc = "returned"
    /\ Len(result) >= 2
    /\ \E k \in 1..Len(result) : Len(ItemsOf(result[k], <<>>)) >= 2
    /\ ItemsOfAll(result) = args.indexable

\* C23: list_files_in_packages returns, for the i-th package, exactly the
\* file leaves of that package: none is missing, none belongs to another
\* package, and no directory of the package is among them.
C23_FileLeavesPerPackage ==
    pc = "returned"
    => /\ Len(result) = Len(args.pkgs)
       /\ \A k \in 1..Len(args.pkgs) : Range(result[k]) = args.pkgs[k].leaves

\* Helpers of the manifest claims: the install directives of the Dockerfile
\* in `result`, and their tokens.
RunLines == SelectSeq(result.lines, LAMBDA l : l.kind = "RUN")

InstallTokens == UNION {RunLines[k].tokens : k \in DOMAIN RunLines}

Written == pc = "dockerized" /\ result.ret = "None"

\* C24: in the Dockerfile dockerize writes, every name of install_packages
\* or unversion_packages is in an install directive, pinned to the version
\* its map records when that is known and as a bare name when the map holds
\* the sentinel; when unversion_packages is not empty its names make up a
\* second install directive, which follows a comment that gives
\* original->substitute for each of them.
C24_ManifestCoversInventory ==
    Written
    => /\ \A n \in DOMAIN install_packages :
             IF install_packages[n] # Unconstrained
             THEN PinnedToken(n, install_packages[n]) \in InstallTokens
             ELSE BareToken(n) \in InstallTokens
       /\ \A n \in DOMAIN unversion_packages :
             IF unversion_packages[n] # Unconstrained
             THEN PinnedToken(n, unversion_packages[n]) \in InstallTokens
             ELSE BareToken(n) \in InstallTokens
       /\ \A t \in InstallTokens : t.pinned => t.ver # Unconstrained
       /\ {t.name : t \in InstallTokens}
             = (DOMAIN install_packages) \cup (DOMAIN unversion_packages)
       /\ DOMAIN unversion_packages # {}
            => /\ Len(RunLines) = 2
               /\ {t.name : t \in RunLines[2].tokens} = DOMAIN unversion_packages
               /\ result.lines[Len(result.lines)] = RunLines[2]
               /\ result.lines[Len(result.lines) - 1].kind = "#"
               /\ result.lines[Len(result.lines) - 1].notes =
                     {IF unversion_packages[n] # Unconstrained
                      THEN Note(n, all_packages[n], unversion_packages[n])
                      ELSE UnknownNote(n, all_packages[n]) :
                         n \in DOMAIN unversion_packages}
       /\ DOMAIN unversion_packages = {} => Len(RunLines) = 1

\* A Dockerfile has been written with a pinned and a bare token and with the
\* second directive.
C24_Witness ==
    /\ Written
    /\ \E n \in DOMAIN unversion_packages : BareToken(n) \in InstallTokens
    /\ \E t \in InstallTokens : t.pinned
    /\ Len(RunLines) = 2

\* The two lines of the claim, as text.
JavaLine ==
    <<"java", "-", "1", ".", "8", ".", "0", "-", "openjdk", ".", "x86_64",
      " ", " ", " ", "1", ":", "1", ".", "8", ".", "0", ".", "212", ".", "b04",
      "-", "0", ".", "el7_6">>

CurlLine ==
    <<"curl", ".", "x86_64", " ", " ", " ", "1", ":", "7", ".", "29", ".", "0",
      "-", "42", ".", "el7">>

\* C25: CentosAnalyzer.parse_pkg_line returns the first field without its
\* final '.arch' as the name, whatever '-' and '.' the name holds, and the
\* second field without 'epoch:' and without '-release' as the version; the
\* java and the curl line of the claim give the pairs the claim names.
C25_CentosLineParsed ==
    pc = "returned"
    => /\ result = [ret |-> "None", name |-> args.name, ver |-> args.version]
       /\ args.line = JavaLine
            => /\ result.name = <<"java", "-", "1", ".", "8", ".", "0", "-", "openjdk">>
               /\ result.ver = <<"1", ".", "8", ".", "0", ".", "212", ".", "b04">>
       /\ args.line = CurlLine
            => /\ result.name = <<"curl">>
               /\ result.ver = <<"7", ".", "29", ".", "0">>

\* The java line of the claim has been parsed.
C25_Witness ==
    /\ pc = "returned"
    /\ args.line = JavaLine
    /\ result.ret = "None"
    /\ result.name = args.name

\* C26: parse_all_pkgs raises when one of its lines is neither a banner or
\* warning nor a package line of the backend's form; it does not return a
\* dictionary then.
C26_UnknownLineIsFatal ==
    (pc = "returned" /\ \E k \in DOMAIN args.lines : args.lines[k] \in OtherLines(args.os))
    => result.ret # "None"

\* Helpers of the filter claim: a filter_packages call has returned, and
\* the names dependency reduction left in install_packages.
Filtered == last.op = "filter_packages" /\ last.ret = "None"

KeptByReduction ==
    (DOMAIN args.install_packages)
        \ analyze_dependencies(DOMAIN all_packages, args.deps)

SameEntry(m1, m2, n) ==
    /\ n \in DOMAIN m1 <=> n \in DOMAIN m2
    /\ n \in DOMAIN m1 => m1[n] = m2[n]

Sentinels(m) == {n \in DOMAIN m : m[n] = Unconstrained}

\* C28: given the same inventory, the same fallback mode and the same missing
\* set, verify_packages of the set-difference backend and _run_fallback of
\* the error-marker backend leave install_packages and unversion_packages
\* with the same key sets and the same sentinel entries.
C28_FallbackIsBackendAgnostic ==
    pc = "returned" =>
        /\ Keys(result.system.inst) = Keys(result.ubuntu.inst)
        /\ Keys(result.system.unv) = Keys(result.ubuntu.unv)
        /\ Sentinels(result.system.inst) = Sentinels(result.ubuntu.inst)
        /\ Sentinels(result.system.unv) = Sentinels(result.ubuntu.unv)

\* C29: when the last verify_packages call ran in Delete mode and evaluated
\* the missing set M, the Dockerfile dockerize writes next holds no install
\* token, pinned or bare, for a name of M.
C29_DeletedNamesNotInstalled ==
    (Written /\ IsVerify(last) /\ last.mode = "delete" /\ Returned(last))
    => \A t \in InstallTokens : t.name \notin last.missing

\* The maps as the Delete or Unversion loop of _run_fallback leaves them.
AfterMutation ==
    IF args.mode = "delete"
    THEN UbuntuDeleteLoop(args.inst, args.unv, SeqOf(result.missing))
    ELSE UbuntuUnversionLoop(args.inst, args.unv, SeqOf(result.missing))

\* The fallback was sufficient: the repeated install attempt reports no
\* error and the listing holds every package of unversion_packages.
Sufficient ==
    /\ args.mode # "dry"
    /\ ~ AptHasError(AfterMutation.inst, AfterMutation.unv,
                     args.unloc, args.novers, args.other)
    /\ (DOMAIN AfterMutation.unv) \subseteq (DOMAIN args.listing)

\* C30: _run_fallback returns True if the fallback was sufficient, with the
\* listing's version stored for every package of unversion_packages, and
\* False otherwise; in Dry mode it returns False.
C30_FallbackVerdict ==
    pc = "returned" =>
        /\ result.ubuntu.ret = (IF Sufficient THEN "True" ELSE "False")
        /\ Sufficient => \A n \in DOMAIN result.ubuntu.unv :
                            result.ubuntu.unv[n] = args.listing[n]

====
